---- MODULE Spec2Model ----
(***************************************************************************)
(* Model of the post-inference core of yolo11s-tensorrt-rs:                *)
(*   - the two GPU session types, TensorRTInference (tensorrt_create,      *)
(*     tensorrt_inference, ...) and YoloInference (yolo_create_inference,  *)
(*     yolo_inference_from_memory_fast, yolo_tensorrt_inference_only, ...),*)
(*     with the device resources they acquire and release and the stream   *)
(*     operations they enqueue;                                            *)
(*   - the per-class greedy suppression nms() as a function of the flat    *)
(*     count-prefixed output tensor.                                       *)
(* Pointers are modelled as resource names; NULL is the null pointer.      *)
(***************************************************************************)
EXTENDS Integers, Sequences, FiniteSets, TLC

NULL == "null"

\* ---------------------------------------------------------------- bounds
\* largest max_batch_size given to tensorrt_create; batch_size arguments
\* range over 0 .. MaxBatch + 1
MaxBatch == 2
\* longest queue of not yet executed operations kept per stream
MaxPending == 4
\* largest number of detections a full-image inference returns
MaxResultDets == 1
\* largest number of records in the output tensor given to nms
MaxDet == 2
\* largest number of runs of cleanup() on one object
MaxCleanups == 2

\* ------------------------------------------------------ program constants
\* yolo/config.h is not part of the sources at hand; the values are the ones
\* the specification fixes (640 by 640 input, one image per batch).
kInputW == 640
kInputH == 640
kBatchSize == 1
kMaxNumOutputBbox == 1000
\* sizeof(Detection) / sizeof(float): bbox[4], conf, class_id, mask[32]
det_size == 38
\* the "assumed" capacity and stride of tensorrt_create
kTrtAssumedBoxes == 8400
kTrtAssumedStride == 116

\* (width, height) pairs given to tensorrt_create
InputDims == {<<640, 640>>, <<320, 256>>}

\* ------------------------------------------------------------- resources
TrtRes == {"trt.runtime", "trt.engine", "trt.context", "trt.stream",
           "trt.input", "trt.output", "trt.proto"}
YoloRes == {"yolo.runtime", "yolo.engine", "yolo.context", "yolo.stream",
            "yolo.dev0", "yolo.dev1", "yolo.dev2",
            "yolo.host_out", "yolo.host_seg", "preprocess"}
ExtRes == {"ext.input", "ext.output", "ext.proto", "ext.stream"}
Resources == TrtRes \cup YoloRes
\* the streams the sessions own; the queue of a stream the caller owns is the
\* caller's state
Streams == {"trt.stream", "yolo.stream"}

VARIABLES
    trt,          \* the TensorRTInference object and the state of its handle
    yolo,         \* the YoloInference object and the state of its handle
    allocCount,   \* per resource: how many times it was acquired
    freeCount,    \* per resource: how many times it was released
    releaseLog,   \* the resources in the order of their release
    bound,        \* per session: the addresses bound to the context's tensors
    pending,      \* per session stream: the operations enqueued and not yet executed
    callOps,      \* the stream operations the last call attempted, in order
    lastCall,     \* the last operation: its name, arguments and return value
    trtLastError, \* g_last_error of the TensorRT wrapper
    yoloLastError,\* g_last_error of the YOLO C API
    allocElems,   \* per device buffer: the element count it was allocated with
    reported,     \* what the last call wrote through its output pointers (queries)
    yoloResult,   \* the YoloResult the last full-image inference filled
    cleanups,     \* per session type: how many times cleanup() has run
    unit,         \* the library the client drives: the TensorRT wrapper or the YOLO C API
    output,       \* nms: the count-prefixed output tensor of one image
    conf_thresh,  \* nms: the confidence threshold
    nms_thresh,   \* nms: the IoU threshold
    res,          \* nms: the vector of retained detections
    nmsPc,        \* nms: "input" before the call, "done" after it
    fn,           \* the helper function under call: iou, batch_nms, get_rect, process_mask
    args,         \* its arguments
    result,       \* what it returned
    fnPc          \* "idle" when none is called, "input" before the call, "done" after it

sessionVars == <<trt, yolo, allocCount, freeCount, releaseLog, bound, pending,
                 callOps, lastCall, trtLastError, yoloLastError, allocElems,
                 reported, yoloResult, cleanups>>

nmsVars == <<output, conf_thresh, nms_thresh, res, nmsPc>>

fnVars == <<fn, args, result, fnPc>>

Live(r) == allocCount[r] > freeCount[r]

\* The TensorRT wrapper and the YOLO C API are two translation units without
\* shared state (each has its own g_last_error, objects and resources): a
\* behaviour drives one of them.
Units == {"tensorrt_inference", "yolo_c_api"}
In(u) == unit = u /\ UNCHANGED <<unit, nmsVars, fnVars>>
\* cleanup() of the session type ran (or not) during the step
Ran(sess, ran) == cleanups' = [cleanups EXCEPT ![sess] = IF ran THEN @ + 1 ELSE @]

\* sequence helpers
RECURSIVE SeqToSet(_)
SeqToSet(s) == IF s = <<>> THEN {} ELSE {Head(s)} \cup SeqToSet(Tail(s))

Prefix(s, n) == SubSeq(s, 1, n)

RECURSIVE FilterNull(_)
FilterNull(s) ==
    IF s = <<>> THEN <<>>
    ELSE IF Head(s) = NULL THEN FilterNull(Tail(s))
         ELSE <<Head(s)>> \o FilterNull(Tail(s))

IndexOf(s, x) == CHOOSE i \in 1..Len(s) : s[i] = x

\* ------------------------------------------------------ TensorRTInference
\* the members with their default initialisers
TrtObject ==
    [state |-> "none",
     runtime |-> NULL, engine |-> NULL, context |-> NULL, stream |-> NULL,
     input_buffer_device |-> NULL, output_buffer_device |-> NULL,
     output_seg_buffer_device |-> NULL,
     input_width |-> 640, input_height |-> 640, max_batch_size |-> 1,
     output_size |-> 0, output_seg_size |-> 0,
     initialized |-> FALSE]

\* the acquisitions of tensorrt_create in program order
TrtAcquireOrder ==
    <<"trt.runtime", "trt.engine", "trt.context", "trt.stream",
      "trt.input", "trt.output", "trt.proto">>

\* the steps of tensorrt_create that can fail: reading the engine file, then
\* each acquisition
TrtCreateFailures == {"file"} \cup SeqToSet(TrtAcquireOrder)

\* what tensorrt_create holds when it leaves: everything on success, the
\* acquisitions before the failing one otherwise (cudaMalloc a || b || c stops
\* at the first failure)
TrtAcquired(fail) ==
    IF fail = "none" THEN TrtAcquireOrder
    ELSE IF fail = "file" THEN <<>>
    ELSE Prefix(TrtAcquireOrder, IndexOf(TrtAcquireOrder, fail) - 1)

TrtCreateError(fail) ==
    CASE fail = "file" -> "Failed to read engine file"
      [] fail = "trt.runtime" -> "Failed to create TensorRT runtime"
      [] fail = "trt.engine" -> "Failed to deserialize TensorRT engine"
      [] fail = "trt.context" -> "Failed to create execution context"
      [] fail = "trt.stream" -> "Failed to create CUDA stream"
      [] OTHER -> "Failed to allocate GPU memory"

\* the buffer sizes tensorrt_create computes, in elements
TrtInputSize(w, h, mb) == mb * 3 * w * h
TrtOutputSize(mb) == mb * kTrtAssumedBoxes * kTrtAssumedStride
TrtOutputSegSize(w, h, mb) == mb * 32 * (h \div 4) * (w \div 4)

Has(acq, r) == IF r \in SeqToSet(acq) THEN r ELSE NULL

\* the object tensorrt_create has built when it leaves
TrtBuilt(w, h, mb, fail) ==
    LET acq == TrtAcquired(fail)
        sized == Len(acq) >= 4   \* the sizes are computed after the stream exists
    IN [state |-> IF fail = "none" THEN "live" ELSE "failed",
        runtime |-> Has(acq, "trt.runtime"),
        engine |-> Has(acq, "trt.engine"),
        context |-> Has(acq, "trt.context"),
        stream |-> Has(acq, "trt.stream"),
        input_buffer_device |-> Has(acq, "trt.input"),
        output_buffer_device |-> Has(acq, "trt.output"),
        output_seg_buffer_device |-> Has(acq, "trt.proto"),
        input_width |-> w, input_height |-> h, max_batch_size |-> mb,
        output_size |-> IF sized THEN TrtOutputSize(mb) ELSE 0,
        output_seg_size |-> IF sized THEN TrtOutputSegSize(w, h, mb) ELSE 0,
        initialized |-> (fail = "none")]

\* cleanup() without its guard on initialized
TrtCleanupReleases_Unguarded(t) ==
    FilterNull(<<t.input_buffer_device, t.output_buffer_device,
                 t.output_seg_buffer_device, t.stream,
                 t.context, t.engine, t.runtime>>)

\* TensorRTInference::cleanup: the resources it releases, in order
TrtCleanupReleases(t) ==
    IF t.initialized
    THEN FilterNull(<<t.input_buffer_device, t.output_buffer_device,
                      t.output_seg_buffer_device, t.stream,
                      t.context, t.engine, t.runtime>>)
    ELSE <<>>

Count(s, r) == Cardinality({i \in 1..Len(s) : s[i] = r})

\* the effect of a sequence of releases (cudaFree, cudaStreamDestroy, delete)
Release(rel) ==
    /\ freeCount' = [r \in Resources |-> freeCount[r] + Count(rel, r)]
    /\ releaseLog' = releaseLog \o rel

\* the effect of a sequence of acquisitions
Acquire(acq) ==
    allocCount' = [r \in Resources |-> allocCount[r] + Count(acq, r)]

NoQuery == [op |-> "none", input_size |-> 0, output_size |-> 0,
            output_seg_size |-> 0, input |-> NULL, output |-> NULL,
            proto |-> NULL, stream |-> NULL]

\* the record of a call: its name, its return value, its batch_size argument
\* (0 for a call that has none) and whether it took the branch of a null
\* handle or null pointer argument
CallB(op, ret, batch_size) ==
    [op |-> op, ret |-> ret, batch_size |-> batch_size, null_arg |-> FALSE]
Call(op, ret) == CallB(op, ret, 0)
CallNull(op, ret) == [Call(op, ret) EXCEPT !.null_arg = TRUE]

\* tensorrt_create(engine_path, input_width, input_height, max_batch_size).
\* A failing step returns nullptr; the unique_ptr then destroys the object,
\* whose destructor runs cleanup() on an object that is not initialized.
tensorrt_create(w, h, mb, fail) ==
    /\ In("tensorrt_inference")
    /\ Ran("trt", fail # "none")
    /\ trt.state = "none"
    /\ LET built == TrtBuilt(w, h, mb, fail)
           acq == TrtAcquired(fail)
       IN /\ Acquire(acq)
          /\ allocElems' =
                [allocElems EXCEPT
                    !["trt.input"] = IF "trt.input" \in SeqToSet(acq)
                                     THEN TrtInputSize(w, h, mb) ELSE @,
                    !["trt.output"] = IF "trt.output" \in SeqToSet(acq)
                                      THEN built.output_size ELSE @,
                    !["trt.proto"] = IF "trt.proto" \in SeqToSet(acq)
                                     THEN built.output_seg_size ELSE @]
          /\ IF fail = "none"
             THEN /\ trt' = built
                  /\ Release(<<>>)
                  /\ bound' = [bound EXCEPT !.trt =
                                  [images |-> built.input_buffer_device,
                                   output |-> built.output_buffer_device,
                                   proto |-> built.output_seg_buffer_device]]
                  /\ trtLastError' = trtLastError
             ELSE /\ Release(TrtCleanupReleases(built))
                  /\ trt' = [built EXCEPT !.initialized = FALSE]
                  /\ bound' = bound
                  /\ trtLastError' = TrtCreateError(fail)
    /\ callOps' = <<>>
    /\ lastCall' = Call("tensorrt_create", IF fail = "none" THEN "handle" ELSE "null")
    /\ reported' = NoQuery
    /\ UNCHANGED <<yolo, pending, yoloLastError, yoloResult>>

\* the explicit call of the public member cleanup() on a live object
TrtCleanup ==
    /\ In("tensorrt_inference")
    /\ cleanups.trt < MaxCleanups
    /\ Ran("trt", TRUE)
    /\ trt.state = "live"
    /\ Release(TrtCleanupReleases(trt))
    /\ trt' = [trt EXCEPT !.initialized = FALSE]
    /\ callOps' = <<>>
    /\ lastCall' = Call("TensorRTInference::cleanup", "void")
    /\ reported' = NoQuery
    /\ UNCHANGED <<yolo, allocCount, bound, pending, trtLastError,
                   yoloLastError, allocElems, yoloResult>>

\* tensorrt_destroy(handle): delete runs the destructor, which runs cleanup()
tensorrt_destroy(handleNull) ==
    /\ In("tensorrt_inference")
    /\ Ran("trt", ~handleNull)
    /\ IF handleNull
       THEN UNCHANGED <<trt, freeCount, releaseLog>>
       ELSE /\ trt.state = "live"
            /\ Release(TrtCleanupReleases(trt))
            /\ trt' = [trt EXCEPT !.initialized = FALSE, !.state = "destroyed"]
    /\ callOps' = <<>>
    /\ lastCall' = IF handleNull THEN CallNull("tensorrt_destroy", "null")
                   ELSE Call("tensorrt_destroy", "void")
    /\ reported' = NoQuery
    /\ UNCHANGED <<yolo, allocCount, bound, pending, trtLastError,
                   yoloLastError, allocElems, yoloResult>>

\* ------------------------------------------------------------ the stream
\* one call of the CUDA/TensorRT API on a stream: a copy (H2D, D2H), the
\* pre-processing kernel (PRE), a forward pass (FWD: src is the bound input,
\* dst and dst2 the bound outputs) or cudaStreamSynchronize (SYNC)
StreamOp(op, stream, src, dst, dst2, count) ==
    [op |-> op, stream |-> stream, src |-> src, dst |-> dst, dst2 |-> dst2,
     count |-> count, ok |-> TRUE]

\* a call that goes on after a failing step
Attempted_KeepsGoing(steps, fail) ==
    [i \in 1..Len(steps) |-> IF i = fail THEN [steps[i] EXCEPT !.ok = FALSE]
                                          ELSE steps[i]]

\* the steps a call attempted when step number fail failed (0: none failed):
\* the steps before it, and the failing step itself marked not ok
Attempted(steps, fail) ==
    IF fail = 0 \/ fail > Len(steps) THEN steps
    ELSE [i \in 1..fail |-> IF i = fail THEN [steps[i] EXCEPT !.ok = FALSE]
                                         ELSE steps[i]]

\* the stream queues after the attempted steps: a step that succeeded is
\* appended to its stream's queue, a successful synchronisation returns only
\* when everything enqueued on the stream has executed
RECURSIVE Enqueue(_, _)
Enqueue(pend, ops) ==
    IF ops = <<>> THEN pend
    ELSE LET o == Head(ops)
             next == IF ~o.ok \/ o.stream \notin DOMAIN pend THEN pend
                     ELSE IF o.op = "SYNC" THEN [pend EXCEPT ![o.stream] = <<>>]
                     ELSE [pend EXCEPT ![o.stream] = Append(@, o.op)]
         IN Enqueue(next, Tail(ops))

\* the queues stay within the model's bound
Bounded(pend) == \A s \in DOMAIN pend : Len(pend[s]) <= MaxPending

\* the device executes the oldest operation of a stream, at any time
DeviceStep(s) ==
    /\ UNCHANGED <<unit, nmsVars, fnVars, cleanups>>
    /\ pending[s] # <<>>
    /\ pending' = [pending EXCEPT ![s] = Tail(@)]
    /\ callOps' = <<>>
    /\ lastCall' = Call("device", s)
    /\ reported' = NoQuery
    /\ UNCHANGED <<trt, yolo, allocCount, freeCount, releaseLog, bound,
                   trtLastError, yoloLastError, allocElems, yoloResult>>

\* ----------------------------------------------------- tensorrt_inference
\* tensorrt_inference without its cudaStreamSynchronize
TrtInferenceSteps_NoSync(t, b, batch_size) ==
    <<StreamOp("H2D", t.stream, "host.input", t.input_buffer_device, NULL,
               batch_size * 3 * t.input_width * t.input_height),
      StreamOp("FWD", t.stream, b.images, b.output, b.proto, 0),
      StreamOp("D2H", t.stream, t.output_buffer_device, "host.output", NULL,
               (batch_size * t.output_size) \div t.max_batch_size),
      StreamOp("D2H", t.stream, t.output_seg_buffer_device, "host.proto", NULL,
               (batch_size * t.output_seg_size) \div t.max_batch_size)>>

\* the five steps of tensorrt_inference in program order
TrtInferenceSteps(t, b, batch_size) ==
    <<StreamOp("H2D", t.stream, "host.input", t.input_buffer_device, NULL,
               batch_size * 3 * t.input_width * t.input_height),
      StreamOp("FWD", t.stream, b.images, b.output, b.proto, 0),
      StreamOp("D2H", t.stream, t.output_buffer_device, "host.output", NULL,
               (batch_size * t.output_size) \div t.max_batch_size),
      StreamOp("D2H", t.stream, t.output_seg_buffer_device, "host.proto", NULL,
               (batch_size * t.output_seg_size) \div t.max_batch_size),
      StreamOp("SYNC", t.stream, NULL, NULL, NULL, 0)>>

\* the message tensorrt_inference stores when step number fail fails
TrtInferenceError(fail) ==
    CASE fail = 1 -> "Failed to copy input data to GPU"
      [] fail = 2 -> "Failed to execute inference"
      [] fail \in {3, 4} -> "Failed to copy output data from GPU"
      [] OTHER -> "Failed to synchronize CUDA stream"

\* tensorrt_inference(handle, input_data, batch_size, output_data,
\* output_seg_data); nullArg: the handle or one of the data pointers is null
tensorrt_inference(nullArg, batch_size, fail) ==
    /\ In("tensorrt_inference")
    /\ UNCHANGED cleanups
    /\ IF nullArg
       THEN /\ trtLastError' = "Invalid parameters"
            /\ callOps' = <<>>
            /\ lastCall' = CallNull("tensorrt_inference", "false")
            /\ UNCHANGED pending
       ELSE /\ trt.state = "live"
            /\ IF ~trt.initialized
               THEN /\ trtLastError' = "TensorRT inference not initialized"
                    /\ callOps' = <<>>
                    /\ lastCall' = Call("tensorrt_inference", "false")
                    /\ UNCHANGED pending
               ELSE /\ callOps' = Attempted(TrtInferenceSteps(trt, bound.trt, batch_size), fail)
                    /\ pending' = Enqueue(pending, callOps')
                    /\ Bounded(pending')
                    /\ trtLastError' = IF fail = 0 THEN trtLastError
                                       ELSE TrtInferenceError(fail)
                    /\ lastCall' = CallB("tensorrt_inference",
                                         IF fail = 0 THEN "true" ELSE "false",
                                         batch_size)
    /\ reported' = NoQuery
    /\ UNCHANGED <<trt, yolo, allocCount, freeCount, releaseLog, bound,
                   yoloLastError, allocElems, yoloResult>>

\* a query that recomputes the detection-output count from the model's
\* constants instead of reading the count used for the allocation
TrtReportedSizes_FromModel(t) ==
    <<t.max_batch_size * (kMaxNumOutputBbox * det_size + 1), t.output_seg_size>>

\* the two counts tensorrt_get_output_sizes writes
TrtReportedSizes(t) == <<t.output_size, t.output_seg_size>>

\* tensorrt_get_output_sizes(handle, output_size, output_seg_size)
tensorrt_get_output_sizes(nullArg) ==
    /\ In("tensorrt_inference")
    /\ UNCHANGED cleanups
    /\ IF nullArg
       THEN /\ trtLastError' = "Invalid parameters"
            /\ lastCall' = CallNull("tensorrt_get_output_sizes", "false")
            /\ reported' = NoQuery
       ELSE /\ trt.state = "live"
            /\ IF ~trt.initialized
               THEN /\ trtLastError' = "TensorRT inference not initialized"
                    /\ lastCall' = Call("tensorrt_get_output_sizes", "false")
                    /\ reported' = NoQuery
               ELSE /\ reported' = [NoQuery EXCEPT
                                       !.op = "tensorrt_get_output_sizes",
                                       !.output_size = TrtReportedSizes(trt)[1],
                                       !.output_seg_size = TrtReportedSizes(trt)[2]]
                    /\ lastCall' = Call("tensorrt_get_output_sizes", "true")
                    /\ UNCHANGED trtLastError
    /\ callOps' = <<>>
    /\ UNCHANGED <<trt, yolo, allocCount, freeCount, releaseLog, bound, pending,
                   yoloLastError, allocElems, yoloResult>>

\* tensorrt_get_last_error()
tensorrt_get_last_error ==
    /\ In("tensorrt_inference")
    /\ UNCHANGED cleanups
    /\ lastCall' = Call("tensorrt_get_last_error", trtLastError)
    /\ callOps' = <<>>
    /\ reported' = NoQuery
    /\ UNCHANGED <<trt, yolo, allocCount, freeCount, releaseLog, bound,
                   pending, trtLastError, yoloLastError, allocElems,
                   yoloResult>>

\* ---------------------------------------------------------- YoloInference
\* the members with their default initialisers (make_unique value-initialises
\* the members that have none)
YoloObject ==
    [state |-> "none",
     runtime |-> NULL, engine |-> NULL, context |-> NULL, stream |-> NULL,
     device_buffers |-> <<NULL, NULL, NULL>>,
     output_buffer_host |-> NULL, output_seg_buffer_host |-> NULL,
     labels |-> FALSE,
     initialized |-> FALSE]

\* the buffer sizes of prepare_buffer and yolo_inference_from_memory_fast
kOutputSize == kMaxNumOutputBbox * det_size + 1
kOutputSegSize == 32 * (kInputH \div 4) * (kInputW \div 4)

\* the acquisitions of yolo_create_inference in program order:
\* deserialize_engine, cudaStreamCreate, cuda_preprocess_init, prepare_buffer
YoloAcquireOrder ==
    <<"yolo.runtime", "yolo.engine", "yolo.context", "yolo.stream", "preprocess",
      "yolo.dev0", "yolo.dev1", "yolo.dev2", "yolo.host_out", "yolo.host_seg">>

\* the steps of yolo_create_inference whose failure makes it return nullptr:
\* the four of deserialize_engine, the two host allocations of prepare_buffer
\* (operator new throws, prepare_buffer catches and returns false), and
\* read_labels. A failing CUDA call under CUDA_CHECK does not return.
YoloCreateFailures ==
    {"file", "yolo.runtime", "yolo.engine", "yolo.context",
     "yolo.host_out", "yolo.host_seg", "labels"}

YoloAcquired(fail) ==
    IF fail \in {"none", "labels"} THEN YoloAcquireOrder
    ELSE IF fail = "file" THEN <<>>
    ELSE Prefix(YoloAcquireOrder, IndexOf(YoloAcquireOrder, fail) - 1)

YoloCreateError(fail) ==
    CASE fail \in {"file", "yolo.runtime", "yolo.engine", "yolo.context"} ->
            "Failed to deserialize engine"
      [] fail \in {"yolo.host_out", "yolo.host_seg"} -> "Failed to prepare buffers"
      [] OTHER -> "Failed to read labels file"

\* the object yolo_create_inference has built when it leaves
YoloBuilt(fail) ==
    LET acq == YoloAcquired(fail)
    IN [state |-> IF fail = "none" THEN "live" ELSE "failed",
        runtime |-> Has(acq, "yolo.runtime"),
        engine |-> Has(acq, "yolo.engine"),
        context |-> Has(acq, "yolo.context"),
        stream |-> Has(acq, "yolo.stream"),
        device_buffers |-> <<Has(acq, "yolo.dev0"), Has(acq, "yolo.dev1"),
                             Has(acq, "yolo.dev2")>>,
        output_buffer_host |-> Has(acq, "yolo.host_out"),
        output_seg_buffer_host |-> Has(acq, "yolo.host_seg"),
        labels |-> (fail = "none"),
        initialized |-> (fail = "none")]

\* YoloInference::cleanup: the resources it releases, in order
YoloCleanupReleases(y) ==
    IF y.initialized
    THEN FilterNull(<<y.stream,
                      y.device_buffers[1], y.device_buffers[2], y.device_buffers[3],
                      y.output_buffer_host, y.output_seg_buffer_host,
                      "preprocess",
                      y.context, y.engine, y.runtime>>)
    ELSE <<>>

\* yolo_create_inference(engine_path, labels_path)
yolo_create_inference(fail) ==
    /\ In("yolo_c_api")
    /\ Ran("yolo", fail # "none")
    /\ yolo.state = "none"
    /\ LET built == YoloBuilt(fail)
           acq == YoloAcquired(fail)
       IN /\ Acquire(acq)
          /\ allocElems' =
                [allocElems EXCEPT
                    !["yolo.dev0"] = IF "yolo.dev0" \in SeqToSet(acq)
                                     THEN kBatchSize * 3 * kInputH * kInputW ELSE @,
                    !["yolo.dev1"] = IF "yolo.dev1" \in SeqToSet(acq)
                                     THEN kBatchSize * kOutputSize ELSE @,
                    !["yolo.dev2"] = IF "yolo.dev2" \in SeqToSet(acq)
                                     THEN kBatchSize * kOutputSegSize ELSE @]
          /\ IF fail = "none"
             THEN /\ yolo' = built
                  /\ Release(<<>>)
                  /\ bound' = [bound EXCEPT !.yolo =
                                  [images |-> built.device_buffers[1],
                                   output |-> built.device_buffers[2],
                                   proto |-> built.device_buffers[3]]]
                  /\ yoloLastError' = yoloLastError
             ELSE /\ Release(YoloCleanupReleases(built))
                  /\ yolo' = [built EXCEPT !.initialized = FALSE]
                  /\ bound' = bound
                  /\ yoloLastError' = YoloCreateError(fail)
    /\ callOps' = <<>>
    /\ lastCall' = Call("yolo_create_inference",
                        IF fail = "none" THEN "handle" ELSE "null")
    /\ reported' = NoQuery
    /\ UNCHANGED <<trt, pending, trtLastError, yoloResult>>

\* the explicit call of the public member cleanup() on a live object
YoloCleanup ==
    /\ In("yolo_c_api")
    /\ cleanups.yolo < MaxCleanups
    /\ Ran("yolo", TRUE)
    /\ yolo.state = "live"
    /\ Release(YoloCleanupReleases(yolo))
    /\ yolo' = [yolo EXCEPT !.initialized = FALSE]
    /\ callOps' = <<>>
    /\ lastCall' = Call("YoloInference::cleanup", "void")
    /\ reported' = NoQuery
    /\ UNCHANGED <<trt, allocCount, bound, pending, trtLastError,
                   yoloLastError, allocElems, yoloResult>>

\* yolo_destroy_inference(handle): delete runs the destructor, which runs
\* cleanup()
yolo_destroy_inference(handleNull) ==
    /\ In("yolo_c_api")
    /\ Ran("yolo", ~handleNull)
    /\ IF handleNull
       THEN UNCHANGED <<yolo, freeCount, releaseLog>>
       ELSE /\ yolo.state = "live"
            /\ Release(YoloCleanupReleases(yolo))
            /\ yolo' = [yolo EXCEPT !.initialized = FALSE, !.state = "destroyed"]
    /\ callOps' = <<>>
    /\ lastCall' = IF handleNull THEN CallNull("yolo_destroy_inference", "null")
                   ELSE Call("yolo_destroy_inference", "void")
    /\ reported' = NoQuery
    /\ UNCHANGED <<trt, allocCount, bound, pending, trtLastError,
                   yoloLastError, allocElems, yoloResult>>

\* ------------------------------------------ yolo_inference_from_memory_fast
\* the stream operations of yolo_inference_from_memory_fast in program order.
\* The value enqueueV3 returns is not looked at: the steps after it run whether
\* or not the forward pass was enqueued. The copies read the addresses the
\* context has bound to the output tensors (getTensorAddress).
YoloInferenceSteps(y, b, enqOk) ==
    <<StreamOp("PRE", y.stream, "host.image", y.device_buffers[1], NULL,
               kBatchSize * 3 * kInputH * kInputW),
      [StreamOp("FWD", y.stream, b.images, b.output, b.proto, 0) EXCEPT !.ok = enqOk],
      StreamOp("D2H", y.stream, b.output, y.output_buffer_host, NULL,
               kBatchSize * kOutputSize),
      StreamOp("D2H", y.stream, b.proto, y.output_seg_buffer_host, NULL,
               kBatchSize * kOutputSegSize),
      StreamOp("SYNC", y.stream, NULL, NULL, NULL, 0)>>

NoResult == [num_detections |-> 0, detections |-> NULL, masks |-> <<>>]

\* a result whose masks are copied whether or not skip_mask_copy is set
FillResult_AlwaysCopies(n, skip_mask_copy) ==
    [num_detections |-> n,
     detections |-> IF n > 0 THEN "new YoloDetection[]" ELSE NULL,
     masks |-> [i \in 1..n |->
                  [mask_data |-> "new float[]", mask_width |-> kInputW,
                   mask_height |-> kInputH, len |-> kInputW * kInputH]]]

\* the YoloResult filled from n retained detections
FillResult(n, skip_mask_copy) ==
    [num_detections |-> n,
     detections |-> IF n > 0 THEN "new YoloDetection[]" ELSE NULL,
     masks |-> [i \in 1..n |->
                  IF ~skip_mask_copy
                  THEN [mask_data |-> "new float[]", mask_width |-> kInputW,
                        mask_height |-> kInputH, len |-> kInputW * kInputH]
                  ELSE [mask_data |-> NULL, mask_width |-> 0,
                        mask_height |-> 0, len |-> 0]]]

\* yolo_inference_from_memory_fast(handle, image_data, width, height,
\* channels, result, skip_mask_copy), entered directly or through one of its
\* wrappers (entry names the function the caller called); n is the number of
\* detections batch_nms retains from the copied-back output tensor
FromMemoryFast(entry, nullArg, skip_mask_copy, enqOk, n) ==
    /\ In("yolo_c_api")
    /\ UNCHANGED cleanups
    /\ IF nullArg
       THEN /\ yoloLastError' = "Invalid parameters"
            /\ callOps' = <<>>
            /\ lastCall' = CallNull(entry, "false")
            /\ UNCHANGED <<pending, yoloResult>>
       ELSE /\ yolo.state = "live"
            /\ yolo.initialized
            /\ callOps' = YoloInferenceSteps(yolo, bound.yolo, enqOk)
            /\ pending' = Enqueue(pending, callOps')
            /\ Bounded(pending')
            /\ yoloResult' = FillResult(n, skip_mask_copy)
            /\ lastCall' = Call(entry, "true")
            /\ UNCHANGED yoloLastError
    /\ reported' = NoQuery
    /\ UNCHANGED <<trt, yolo, allocCount, freeCount, releaseLog, bound,
                   trtLastError, allocElems>>

yolo_inference_from_memory_fast(nullArg, skip_mask_copy, enqOk, n) ==
    FromMemoryFast("yolo_inference_from_memory_fast", nullArg,
                   skip_mask_copy, enqOk, n)

yolo_inference_from_memory(nullArg, enqOk, n) ==
    FromMemoryFast("yolo_inference_from_memory", nullArg, FALSE, enqOk, n)

\* yolo_inference_fast(handle, image_path, result, skip_mask_copy): reads the
\* image, then runs yolo_inference_from_memory_fast on its pixels
FromPathFast(entry, nullArg, imreadFails, skip_mask_copy, enqOk, n) ==
    IF nullArg
    THEN /\ In("yolo_c_api")
         /\ UNCHANGED cleanups
         /\ yoloLastError' = "Invalid parameters"
         /\ callOps' = <<>>
         /\ lastCall' = CallNull(entry, "false")
         /\ reported' = NoQuery
         /\ UNCHANGED <<trt, yolo, allocCount, freeCount, releaseLog, bound,
                        pending, trtLastError, allocElems, yoloResult>>
    ELSE IF imreadFails
    THEN /\ In("yolo_c_api")
         /\ UNCHANGED cleanups
         /\ yolo.state = "live"
         /\ yoloLastError' = "Failed to read image"
         /\ callOps' = <<>>
         /\ lastCall' = Call(entry, "false")
         /\ reported' = NoQuery
         /\ UNCHANGED <<trt, yolo, allocCount, freeCount, releaseLog, bound,
                        pending, trtLastError, allocElems, yoloResult>>
    ELSE FromMemoryFast(entry, FALSE, skip_mask_copy, enqOk, n)

yolo_inference_fast(nullArg, imreadFails, skip_mask_copy, enqOk, n) ==
    FromPathFast("yolo_inference_fast", nullArg, imreadFails,
                 skip_mask_copy, enqOk, n)

yolo_inference(nullArg, imreadFails, enqOk, n) ==
    FromPathFast("yolo_inference", nullArg, imreadFails, FALSE, enqOk, n)

\* ---------------------------------------------- yolo_tensorrt_inference_only
\* a forward pass followed by a synchronisation of the stream
InferenceOnlyOps_Sync(in, out, proto, stream, enqOk) ==
    <<[StreamOp("FWD", stream, in, out, proto, 0) EXCEPT !.ok = enqOk],
      StreamOp("SYNC", stream, NULL, NULL, NULL, 0)>>

\* the stream operations of yolo_tensorrt_inference_only: one forward pass on
\* the given stream; the value enqueueV3 returns is not looked at
InferenceOnlyOps(in, out, proto, stream, enqOk) ==
    <<[StreamOp("FWD", stream, in, out, proto, 0) EXCEPT !.ok = enqOk]>>

\* yolo_tensorrt_inference_only(handle, input_buffer, output_buffer,
\* output_seg_buffer, stream); nullArg: the handle or one of the three buffers
\* is null; the stream is not checked
yolo_tensorrt_inference_only(nullArg, in, out, proto, stream, enqOk) ==
    /\ In("yolo_c_api")
    /\ UNCHANGED cleanups
    /\ IF nullArg
       THEN /\ yoloLastError' = "Invalid parameters"
            /\ callOps' = <<>>
            /\ lastCall' = CallNull("yolo_tensorrt_inference_only", "false")
            /\ UNCHANGED <<bound, pending>>
       ELSE /\ yolo.state = "live"
            /\ yolo.initialized
            /\ bound' = [bound EXCEPT !.yolo =
                            [images |-> in, output |-> out, proto |-> proto]]
            /\ callOps' = InferenceOnlyOps(in, out, proto, stream, enqOk)
            /\ pending' = Enqueue(pending, callOps')
            /\ Bounded(pending')
            /\ lastCall' = Call("yolo_tensorrt_inference_only", "true")
            /\ UNCHANGED yoloLastError
    /\ reported' = NoQuery
    /\ UNCHANGED <<trt, yolo, allocCount, freeCount, releaseLog, trtLastError,
                   allocElems, yoloResult>>

\* ------------------------------------------------------------ the queries
\* the three counts yolo_get_tensorrt_info writes
YoloReportedSizes ==
    <<kBatchSize * kInputH * kInputW * 3,
      kMaxNumOutputBbox * det_size + 1,
      32 * (kInputH \div 4) * (kInputW \div 4)>>

\* yolo_get_tensorrt_info(handle, input_size, output_size, output_seg_size)
yolo_get_tensorrt_info(nullArg) ==
    /\ In("yolo_c_api")
    /\ UNCHANGED cleanups
    /\ IF nullArg
       THEN /\ yoloLastError' = "Invalid parameters"
            /\ lastCall' = CallNull("yolo_get_tensorrt_info", "false")
            /\ reported' = NoQuery
       ELSE /\ yolo.state = "live"
            /\ reported' = [NoQuery EXCEPT
                               !.op = "yolo_get_tensorrt_info",
                               !.input_size = YoloReportedSizes[1],
                               !.output_size = YoloReportedSizes[2],
                               !.output_seg_size = YoloReportedSizes[3]]
            /\ lastCall' = Call("yolo_get_tensorrt_info", "true")
            /\ UNCHANGED yoloLastError
    /\ callOps' = <<>>
    /\ UNCHANGED <<trt, yolo, allocCount, freeCount, releaseLog, bound, pending,
                   trtLastError, allocElems, yoloResult>>

\* a getter that reads the addresses bound to the context
BuffersReported_Bound(y, b) == <<b.images, b.output, b.proto>>

\* the three addresses yolo_get_tensorrt_buffers writes: the session's
\* device_buffers (b: the addresses bound to the context, which it does not read)
BuffersReported(y, b) ==
    <<y.device_buffers[1], y.device_buffers[2], y.device_buffers[3]>>

\* yolo_get_tensorrt_buffers(handle, input_buffer, output_buffer,
\* output_seg_buffer)
yolo_get_tensorrt_buffers(nullArg) ==
    /\ In("yolo_c_api")
    /\ UNCHANGED cleanups
    /\ IF nullArg
       THEN /\ yoloLastError' = "Invalid parameters"
            /\ lastCall' = CallNull("yolo_get_tensorrt_buffers", "false")
            /\ reported' = NoQuery
       ELSE /\ yolo.state = "live"
            /\ reported' = [NoQuery EXCEPT
                               !.op = "yolo_get_tensorrt_buffers",
                               !.input = BuffersReported(yolo, bound.yolo)[1],
                               !.output = BuffersReported(yolo, bound.yolo)[2],
                               !.proto = BuffersReported(yolo, bound.yolo)[3]]
            /\ lastCall' = Call("yolo_get_tensorrt_buffers", "true")
            /\ UNCHANGED yoloLastError
    /\ callOps' = <<>>
    /\ UNCHANGED <<trt, yolo, allocCount, freeCount, releaseLog, bound, pending,
                   trtLastError, allocElems, yoloResult>>

\* yolo_get_cuda_stream(handle)
yolo_get_cuda_stream(handleNull) ==
    /\ In("yolo_c_api")
    /\ UNCHANGED cleanups
    /\ IF handleNull
       THEN /\ yoloLastError' = "Invalid handle"
            /\ lastCall' = CallNull("yolo_get_cuda_stream", NULL)
            /\ reported' = NoQuery
       ELSE /\ yolo.state = "live"
            /\ reported' = [NoQuery EXCEPT !.op = "yolo_get_cuda_stream",
                                           !.stream = yolo.stream]
            /\ lastCall' = Call("yolo_get_cuda_stream", yolo.stream)
            /\ UNCHANGED yoloLastError
    /\ callOps' = <<>>
    /\ UNCHANGED <<trt, yolo, allocCount, freeCount, releaseLog, bound, pending,
                   trtLastError, allocElems, yoloResult>>

\* yolo_save_result_image(handle, image_path, result, output_path): reads the
\* image, draws the result on it and returns what cv::imwrite returns; a false
\* from cv::imwrite is returned as it is, no message is stored for it
yolo_save_result_image(nullArg, imreadFails, imwriteFails) ==
    /\ In("yolo_c_api")
    /\ UNCHANGED cleanups
    /\ IF nullArg
       THEN /\ yoloLastError' = "Invalid parameters"
            /\ lastCall' = CallNull("yolo_save_result_image", "false")
       ELSE /\ yolo.state = "live"
            /\ IF imreadFails
               THEN /\ yoloLastError' = "Failed to read image"
                    /\ lastCall' = Call("yolo_save_result_image", "false")
               ELSE /\ lastCall' = Call("yolo_save_result_image",
                                        IF imwriteFails THEN "false" ELSE "true")
                    /\ UNCHANGED yoloLastError
    /\ callOps' = <<>>
    /\ reported' = NoQuery
    /\ UNCHANGED <<trt, yolo, allocCount, freeCount, releaseLog, bound, pending,
                   trtLastError, allocElems, yoloResult>>

\* yolo_get_last_error()
yolo_get_last_error ==
    /\ In("yolo_c_api")
    /\ UNCHANGED cleanups
    /\ lastCall' = Call("yolo_get_last_error", yoloLastError)
    /\ callOps' = <<>>
    /\ reported' = NoQuery
    /\ UNCHANGED <<trt, yolo, allocCount, freeCount, releaseLog, bound,
                   pending, trtLastError, yoloLastError, allocElems,
                   yoloResult>>

\* ------------------------------------------------------ the session model
vars == <<sessionVars, unit, nmsVars, fnVars>>

SessionInit ==
    /\ trt = TrtObject
    /\ yolo = YoloObject
    /\ allocCount = [r \in Resources |-> 0]
    /\ freeCount = [r \in Resources |-> 0]
    /\ releaseLog = <<>>
    /\ bound = [trt |-> [images |-> NULL, output |-> NULL, proto |-> NULL],
                yolo |-> [images |-> NULL, output |-> NULL, proto |-> NULL]]
    /\ pending = [s \in Streams |-> <<>>]
    /\ callOps = <<>>
    /\ lastCall = Call("none", "void")
    /\ trtLastError = ""
    /\ yoloLastError = ""
    /\ allocElems = [r \in Resources |-> 0]
    /\ reported = NoQuery
    /\ yoloResult = NoResult
    /\ cleanups = [trt |-> 0, yolo |-> 0]

NmsIdle ==
    /\ output = [count |-> 0, recs |-> <<>>]
    /\ conf_thresh = [nan |-> FALSE, v |-> 0]
    /\ nms_thresh = <<1, 2>>
    /\ res = <<>>
    /\ nmsPc = "input"

FnIdle ==
    /\ fn = "none"
    /\ args = <<>>
    /\ result = <<>>
    /\ fnPc = "idle"

Init ==
    /\ SessionInit
    /\ unit \in Units
    /\ NmsIdle
    /\ FnIdle

TrtNext ==
    \/ \E d \in InputDims, mb \in 1..MaxBatch, fail \in {"none"} \cup TrtCreateFailures :
          tensorrt_create(d[1], d[2], mb, fail)
    \/ TrtCleanup
    \/ \E handleNull \in BOOLEAN : tensorrt_destroy(handleNull)
    \/ \E nullArg \in BOOLEAN,
          batch_size \in 0..(MaxBatch + 1), fail \in 0..5 :
          tensorrt_inference(nullArg, batch_size, fail)
    \/ \E nullArg \in BOOLEAN :
          tensorrt_get_output_sizes(nullArg)
    \/ tensorrt_get_last_error

\* the buffers and the stream a caller of yolo_tensorrt_inference_only passes:
\* the session's own (from the getters) or its own allocations
CallerBuffers ==
    {<<yolo.device_buffers[1], yolo.device_buffers[2], yolo.device_buffers[3]>>,
     <<"ext.input", "ext.output", "ext.proto">>}
CallerStreams == {yolo.stream, "ext.stream", NULL}

YoloNext ==
    \/ \E fail \in {"none"} \cup YoloCreateFailures : yolo_create_inference(fail)
    \/ YoloCleanup
    \/ \E handleNull \in BOOLEAN : yolo_destroy_inference(handleNull)
    \/ \E nullArg \in BOOLEAN, skip \in BOOLEAN,
          enqOk \in BOOLEAN, n \in 0..MaxResultDets :
          yolo_inference_from_memory_fast(nullArg, skip, enqOk, n)
    \/ \E nullArg \in BOOLEAN,
          enqOk \in BOOLEAN, n \in 0..MaxResultDets :
          yolo_inference_from_memory(nullArg, enqOk, n)
    \/ \E nullArg \in BOOLEAN, imreadFails \in BOOLEAN,
          skip \in BOOLEAN, enqOk \in BOOLEAN, n \in 0..MaxResultDets :
          yolo_inference_fast(nullArg, imreadFails, skip, enqOk, n)
    \/ \E nullArg \in BOOLEAN, imreadFails \in BOOLEAN,
          enqOk \in BOOLEAN, n \in 0..MaxResultDets :
          yolo_inference(nullArg, imreadFails, enqOk, n)
    \/ \E nullArg \in BOOLEAN, b \in CallerBuffers,
          s \in CallerStreams, enqOk \in BOOLEAN :
          yolo_tensorrt_inference_only(nullArg, b[1], b[2], b[3], s, enqOk)
    \/ \E nullArg \in BOOLEAN :
          yolo_get_tensorrt_info(nullArg)
    \/ \E nullArg \in BOOLEAN :
          yolo_get_tensorrt_buffers(nullArg)
    \/ \E handleNull \in BOOLEAN : yolo_get_cuda_stream(handleNull)
    \/ \E nullArg \in BOOLEAN, imreadFails \in BOOLEAN, imwriteFails \in BOOLEAN :
          yolo_save_result_image(nullArg, imreadFails, imwriteFails)
    \/ yolo_get_last_error

Device == \E s \in Streams : DeviceStep(s)

Next == TrtNext \/ YoloNext \/ Device

Spec == Init /\ [][Next]_vars

\* a caller of the yolo C API that works on whole images only: it never hands
\* its own buffers to yolo_tensorrt_inference_only
FromMemoryInit == SessionInit /\ unit = "yolo_c_api" /\ NmsIdle /\ FnIdle

FromMemoryNext ==
    \/ \E fail \in {"none"} \cup YoloCreateFailures : yolo_create_inference(fail)
    \/ YoloCleanup
    \/ \E handleNull \in BOOLEAN : yolo_destroy_inference(handleNull)
    \/ \E nullArg \in BOOLEAN, skip \in BOOLEAN,
          enqOk \in BOOLEAN, n \in 0..MaxResultDets :
          yolo_inference_from_memory_fast(nullArg, skip, enqOk, n)
    \/ \E nullArg \in BOOLEAN,
          enqOk \in BOOLEAN, n \in 0..MaxResultDets :
          yolo_inference_from_memory(nullArg, enqOk, n)
    \/ \E nullArg \in BOOLEAN, imreadFails \in BOOLEAN,
          skip \in BOOLEAN, enqOk \in BOOLEAN, n \in 0..MaxResultDets :
          yolo_inference_fast(nullArg, imreadFails, skip, enqOk, n)
    \/ \E nullArg \in BOOLEAN, imreadFails \in BOOLEAN, imwriteFails \in BOOLEAN :
          yolo_save_result_image(nullArg, imreadFails, imwriteFails)
    \/ yolo_get_last_error

SpecFromMemory == FromMemoryInit /\ [][FromMemoryNext]_vars

\* ------------------------------------------------------------------- nms
\* A confidence is a float: a number or NaN; every comparison with NaN is
\* false. Box coordinates are integers.
F(v) == [nan |-> FALSE, v |-> v]
NaN == [nan |-> TRUE, v |-> 0]
IsNaN(x) == x.nan
FLeq(a, b) == ~IsNaN(a) /\ ~IsNaN(b) /\ a.v <= b.v
FGt(a, b) == ~IsNaN(a) /\ ~IsNaN(b) /\ a.v > b.v
FEq(a, b) == ~IsNaN(a) /\ ~IsNaN(b) /\ a.v = b.v

Max(a, b) == IF a >= b THEN a ELSE b
Min(a, b) == IF a <= b THEN a ELSE b

\* the intersection divided by the area of the first box
iou_OverFirst(lbox, rbox) ==
    LET interBox == <<Max(lbox[1], rbox[1]), Min(lbox[3], rbox[3]),
                      Max(lbox[2], rbox[2]), Min(lbox[4], rbox[4])>>
    IN IF interBox[3] > interBox[4] \/ interBox[1] > interBox[2]
       THEN <<0, 1>>
       ELSE <<(interBox[2] - interBox[1]) * (interBox[4] - interBox[3]),
              (lbox[3] - lbox[1]) * (lbox[4] - lbox[2])>>

\* iou without the early return for an empty intersection
iou_NoEarlyReturn(lbox, rbox) ==
    LET interBox == <<Max(lbox[1], rbox[1]), Min(lbox[3], rbox[3]),
                      Max(lbox[2], rbox[2]), Min(lbox[4], rbox[4])>>
        interBoxS == (interBox[2] - interBox[1]) * (interBox[4] - interBox[3])
        unionBoxS == (lbox[3] - lbox[1]) * (lbox[4] - lbox[2])
                     + (rbox[3] - rbox[1]) * (rbox[4] - rbox[2]) - interBoxS
    IN <<interBoxS, unionBoxS>>

\* iou(lbox, rbox) on corner boxes (left, top, right, bottom), as the fraction
\* <<interBoxS, unionBoxS>>; <<0, 1>> is the 0.0f of the early return
iou(lbox, rbox) ==
    LET interBox == <<Max(lbox[1], rbox[1]), Min(lbox[3], rbox[3]),
                      Max(lbox[2], rbox[2]), Min(lbox[4], rbox[4])>>
    IN IF interBox[3] > interBox[4] \/ interBox[1] > interBox[2]
       THEN <<0, 1>>
       ELSE LET interBoxS == (interBox[2] - interBox[1]) * (interBox[4] - interBox[3])
                unionBoxS == (lbox[3] - lbox[1]) * (lbox[4] - lbox[2])
                             + (rbox[3] - rbox[1]) * (rbox[4] - rbox[2]) - interBoxS
            IN <<interBoxS, unionBoxS>>

\* q > t for a float quotient q = n / d and a threshold t = tn / td, td > 0:
\* 0 / 0 is NaN (never greater), n / 0 is an infinity
QuotGt(q, t) ==
    IF q[2] = 0 THEN q[1] > 0
    ELSE IF q[2] > 0 THEN q[1] * t[2] > t[1] * q[2]
    ELSE q[1] * t[2] < t[1] * q[2]

\* a comparison that orders by ascending confidence
cmp_Ascending(a, b) ==
    IF FEq(a.conf, b.conf) THEN a.bbox[1] < b.bbox[1]
    ELSE FGt(b.conf, a.conf)

\* cmp(a, b): descending confidence, ties by ascending bbox[0]
cmp(a, b) ==
    IF FEq(a.conf, b.conf) THEN a.bbox[1] < b.bbox[1]
    ELSE FGt(a.conf, b.conf)

\* the filter without its isnan test
Passes_NoNaNCheck(conf, ct) == ~FLeq(conf, ct)

\* the filter of the first loop: the record is skipped when its confidence is
\* <= conf_thresh or NaN
Passes(conf, ct) == ~(FLeq(conf, ct) \/ IsNaN(conf))

\* the records the first loop keeps, in the order it reads them
Filtered(out, ct) ==
    SelectSeq(Prefix(out.recs, out.count), LAMBDA d : Passes(d.conf, ct))

\* one bucket for all classes
Bucket_AnyClass(kept, c) == kept

\* m[class_id]: the kept records of one class, in insertion order
Bucket(kept, c) == SelectSeq(kept, LAMBDA d : d.class_id = c)

\* the keys of the std::map in iteration order (ascending)
RECURSIVE KeysAscending(_)
KeysAscending(keys) ==
    IF keys = {} THEN <<>>
    ELSE LET k == CHOOSE x \in keys : \A y \in keys : x <= y
         IN <<k>> \o KeysAscending(keys \ {k})

\* std::sort(dets, cmp): every arrangement of the bucket that cmp orders; the
\* order of records that cmp does not distinguish is unspecified
SortedBy(b) ==
    LET n == Len(b)
        perms == {p \in [1..n -> 1..n] : \A i, j \in 1..n : i # j => p[i] # p[j]}
        arranged == {[i \in 1..n |-> b[p[i]]] : p \in perms}
    IN {a \in arranged : \A i, j \in 1..n : i < j => ~cmp(a[j], a[i])}

\* a sweep that erases a record only when it overlaps the record emitted
\* directly before it
RECURSIVE Sweep_AgainstPrevious(_, _)
Sweep_AgainstPrevious(dets, nt) ==
    IF Len(dets) <= 1 THEN dets
    ELSE IF QuotGt(iou(dets[1].bbox, dets[2].bbox), nt)
         THEN Sweep_AgainstPrevious(<<dets[1]>> \o SubSeq(dets, 3, Len(dets)), nt)
         ELSE <<dets[1]>> \o Sweep_AgainstPrevious(Tail(dets), nt)

\* the greedy sweep over one sorted bucket: the first record is emitted and
\* every later record whose IoU with it exceeds nms_thresh is erased
RECURSIVE Sweep(_, _)
Sweep(dets, nt) ==
    IF dets = <<>> THEN <<>>
    ELSE LET item == Head(dets)
         IN <<item>> \o
            Sweep(SelectSeq(Tail(dets),
                            LAMBDA d : ~QuotGt(iou(item.bbox, d.bbox), nt)),
                  nt)

\* what the second loop can push to res: the swept buckets in key order
RECURSIVE Emitted(_, _, _)
Emitted(kept, keys, nt) ==
    IF keys = <<>> THEN {<<>>}
    ELSE {first \o rest :
            first \in {Sweep(a, nt) : a \in SortedBy(Bucket(kept, Head(keys)))},
            rest \in Emitted(kept, Tail(keys), nt)}

NmsResults(out, ct, nt) ==
    LET kept == Filtered(out, ct)
        keys == KeysAscending({kept[i].class_id : i \in 1..Len(kept)})
    IN Emitted(kept, keys, nt)

\* nms(res, output, conf_thresh, nms_thresh)
nms ==
    /\ nmsPc = "input"
    /\ \E r \in NmsResults(output, conf_thresh, nms_thresh) : res' = res \o r
    /\ nmsPc' = "done"
    /\ UNCHANGED <<output, conf_thresh, nms_thresh, sessionVars, unit, fnVars>>

\* the output of nms written back as a count-prefixed tensor
Encode(dets) == [count |-> Len(dets), recs |-> dets]

\* nms called again, with the same thresholds, on the encoded output of the
\* first call and with an empty result vector
nms_rerun ==
    /\ nmsPc = "done"
    /\ output' = Encode(res)
    /\ \E r \in NmsResults(output', conf_thresh, nms_thresh) : res' = r
    /\ nmsPc' = "rerun"
    /\ UNCHANGED <<conf_thresh, nms_thresh, sessionVars, unit, fnVars>>

\* the inputs of nms
Boxes == {<<0, 0, 4, 4>>, <<1, 0, 5, 4>>, <<2, 0, 6, 4>>, <<0, 0, 4, 12>>}
Confs == {NaN, F(1), F(2), F(3)}
ClassIds == {0, 1}
ConfThreshs == {F(1), F(2)}
NmsThreshs == {<<1, 2>>, <<1, 4>>}
Dets == [bbox : Boxes, conf : Confs, class_id : ClassIds]
Tensors ==
    {[count |-> c, recs |-> r] :
        <<c, r>> \in UNION {(0..k) \X [1..k -> Dets] : k \in 0..MaxDet}}

NmsInit ==
    /\ SessionInit
    /\ unit = "yolo_c_api"
    /\ output \in Tensors
    /\ conf_thresh \in ConfThreshs
    /\ nms_thresh \in NmsThreshs
    /\ res = <<>>
    /\ nmsPc = "input"
    /\ FnIdle

NmsNext == nms \/ nms_rerun

SpecNms == NmsInit /\ [][NmsNext]_vars

\* nms on full tensors of SweepLen records, all above the confidence
\* threshold, so that a record can be ranked behind two others
SweepLen == 3
SweepBoxes == {<<0, 0, 4, 4>>, <<1, 0, 5, 4>>, <<0, 0, 4, 12>>}
SweepConfs == {F(2), F(3), F(4)}
SweepDets == [bbox : SweepBoxes, conf : SweepConfs, class_id : ClassIds]

SweepInit ==
    /\ SessionInit
    /\ unit = "yolo_c_api"
    /\ \E r \in [1..SweepLen -> SweepDets] : output = [count |-> SweepLen, recs |-> r]
    /\ conf_thresh = F(1)
    /\ nms_thresh \in NmsThreshs
    /\ res = <<>>
    /\ nmsPc = "input"
    /\ FnIdle

SpecSweep == SweepInit /\ [][NmsNext]_vars

\* ------------------------------------------------------------------- iou
\* a call of iou on two boxes
call_iou ==
    /\ fn = "iou" /\ fnPc = "input"
    /\ result' = iou(args.lbox, args.rbox)
    /\ fnPc' = "done"
    /\ UNCHANGED <<fn, args, sessionVars, unit, nmsVars>>

\* the inputs of iou: boxes with corners on a small grid, the inverted ones
\* (right < left, bottom < top) included
MaxCoord == 2
IouBoxes == (0..MaxCoord) \X (0..MaxCoord) \X (0..MaxCoord) \X (0..MaxCoord)

IouInit ==
    /\ SessionInit
    /\ unit = "yolo_c_api"
    /\ NmsIdle
    /\ fn = "iou"
    /\ args \in [lbox : IouBoxes, rbox : IouBoxes]
    /\ result = <<>>
    /\ fnPc = "input"

IouNext == call_iou

SpecIou == IouInit /\ [][IouNext]_vars

\* ============================================================== properties
OpKinds(ops) == [i \in 1..Len(ops) |-> ops[i].op]
TrtProgramOrder == <<"H2D", "FWD", "D2H", "D2H", "SYNC">>
TrtDeviceBuffers == {"trt.input", "trt.output", "trt.proto"}
YoloDeviceBuffers == {"yolo.dev0", "yolo.dev1", "yolo.dev2"}
Released(r) == \E i \in 1..Len(releaseLog) : releaseLog[i] = r
\* every release of a resource of as comes before every release of one of bs
AllBefore(as, bs) ==
    \A i, j \in 1..Len(releaseLog) :
        releaseLog[i] \in as /\ releaseLog[j] \in bs => i < j

\* C1: when create fails and returns the null handle, every resource acquired
\* before the failing step has been released (both session types).
CreateRollsBack ==
    /\ trt.state = "failed" => \A r \in TrtRes : ~Live(r)
    /\ yolo.state = "failed" => \A r \in YoloRes : ~Live(r)

\* C2: when tensorrt_inference returns success it has enqueued on the session
\* stream, in this order, the input copy, the forward pass, the
\* detection-output copy-back and the proto-output copy-back, then
\* synchronised that stream: nothing is pending on it when the call returns.
InferenceSuccessIsSynchronized ==
    lastCall.op = "tensorrt_inference" /\ lastCall.ret = "true" =>
        /\ OpKinds(callOps) = TrtProgramOrder
        /\ \A i \in 1..Len(callOps) : callOps[i].ok /\ callOps[i].stream = trt.stream
        /\ callOps[1].src = "host.input"
        /\ callOps[1].dst = trt.input_buffer_device
        /\ callOps[3].src = trt.output_buffer_device
        /\ callOps[3].dst = "host.output"
        /\ callOps[4].src = trt.output_seg_buffer_device
        /\ callOps[4].dst = "host.proto"
        /\ pending[trt.stream] = <<>>

InferenceSuccessWitness ==
    /\ lastCall.op = "tensorrt_inference" /\ lastCall.ret = "true"
    /\ Len(callOps) = 5
    /\ lastCall.batch_size = 1

\* the error of the taxonomy a stored message stands for
ErrorKind(msg) ==
    CASE msg \in {"Failed to copy input data to GPU",
                  "Failed to copy output data from GPU"} -> "CopyError"
      [] msg = "Failed to execute inference" -> "InferenceError"
      [] msg = "Failed to synchronize CUDA stream" -> "SyncError"
      [] OTHER -> "other"
\* the error of the taxonomy a failing step must produce
StepError(op) ==
    CASE op \in {"H2D", "D2H"} -> "CopyError"
      [] op = "FWD" -> "InferenceError"
      [] OTHER -> "SyncError"

\* C3: when a step of tensorrt_inference fails the call returns failure with
\* the error of that step; the steps it attempted are the steps before the
\* failing one, each once and in program order, and the failing step is the
\* last one attempted.  A call that returns success had no failing step.
InferenceFailureIsTerminal ==
    lastCall.op = "tensorrt_inference" =>
        /\ (\E i \in 1..Len(callOps) : ~callOps[i].ok) => lastCall.ret = "false"
        /\ lastCall.ret = "false" /\ callOps # <<>> =>
              LET k == Len(callOps) IN
              /\ k <= Len(TrtProgramOrder)
              /\ OpKinds(callOps) = Prefix(TrtProgramOrder, k)
              /\ \A i \in 1..k : callOps[i].ok <=> i < k
              /\ ErrorKind(trtLastError) = StepError(callOps[k].op)

InferenceFailureWitness ==
    /\ lastCall.op = "tensorrt_inference" /\ lastCall.ret = "false"
    /\ Len(callOps) = 4
    /\ ~callOps[4].ok
    /\ trtLastError = "Failed to copy output data from GPU"

\* C4: a step of yolo_tensorrt_inference_only changes nothing of the session
\* object, its buffers, its host buffers or its stream handle, performs no
\* copy and no synchronisation; when it succeeds it has bound exactly the
\* three given addresses and enqueued one forward pass on the given stream.
InferenceOnlyFrame ==
    [][lastCall'.op = "yolo_tensorrt_inference_only" =>
         /\ yolo' = yolo
         /\ allocCount' = allocCount /\ freeCount' = freeCount
         /\ releaseLog' = releaseLog /\ allocElems' = allocElems
         /\ yoloResult' = yoloResult
         /\ \A i \in 1..Len(callOps') : callOps'[i].op = "FWD"
         /\ lastCall'.ret = "true" =>
               /\ Len(callOps') = 1
               /\ bound'.yolo = [images |-> callOps'[1].src,
                                 output |-> callOps'[1].dst,
                                 proto |-> callOps'[1].dst2]
               /\ pending' = IF callOps'[1].ok /\ callOps'[1].stream \in Streams
                             THEN [pending EXCEPT ![callOps'[1].stream] =
                                       Append(@, "FWD")]
                             ELSE pending
         /\ lastCall'.ret = "false" =>
               callOps' = <<>> /\ bound' = bound /\ pending' = pending
    ]_vars

InferenceOnlyWitness ==
    /\ lastCall.op = "yolo_tensorrt_inference_only" /\ lastCall.ret = "true"
    /\ Len(callOps) = 1 /\ callOps[1].ok
    /\ callOps[1].stream = "yolo.stream"
    /\ bound.yolo.images = "ext.input"
    /\ Len(pending["yolo.stream"]) >= 2

\* C5: a destroyed session of either type has released its three device
\* buffers first, then its stream, then its engine, context and runtime.
TeardownOrder ==
    /\ trt.state = "destroyed" =>
          /\ \A r \in TrtRes : Released(r)
          /\ AllBefore(TrtDeviceBuffers, {"trt.stream"})
          /\ AllBefore({"trt.stream"}, {"trt.engine", "trt.context", "trt.runtime"})
    /\ yolo.state = "destroyed" =>
          /\ \A r \in YoloDeviceBuffers \cup {"yolo.stream", "yolo.engine",
                                              "yolo.context", "yolo.runtime"} :
                Released(r)
          /\ AllBefore(YoloDeviceBuffers, {"yolo.stream"})
          /\ AllBefore({"yolo.stream"}, {"yolo.engine", "yolo.context", "yolo.runtime"})

\* C6: for a successfully created session, each of the three device buffers
\* and the stream has been allocated exactly once, and has been released
\* never while the session is initialized and exactly once afterwards,
\* however many times cleanup has run.
ReleasedExactlyOnce ==
    /\ trt.state \in {"live", "destroyed"} =>
          \A r \in TrtDeviceBuffers \cup {"trt.stream"} :
              /\ allocCount[r] = 1
              /\ freeCount[r] = IF trt.initialized THEN 0 ELSE 1
    /\ yolo.state \in {"live", "destroyed"} =>
          \A r \in YoloDeviceBuffers \cup {"yolo.stream"} :
              /\ allocCount[r] = 1
              /\ freeCount[r] = IF yolo.initialized THEN 0 ELSE 1

SecondCleanupWitness ==
    /\ trt.state = "destroyed"
    /\ cleanups.trt >= 2
    /\ freeCount["trt.input"] = 1 /\ freeCount["trt.stream"] = 1

\* C7: every successful yolo_get_tensorrt_buffers reports the three device
\* addresses the session was created with, and every successful
\* yolo_get_cuda_stream the stream it was created with, whatever calls came
\* before.
StableAddresses ==
    /\ lastCall.op = "yolo_get_tensorrt_buffers" /\ lastCall.ret = "true" =>
          <<reported.input, reported.output, reported.proto>>
              = <<"yolo.dev0", "yolo.dev1", "yolo.dev2">>
    /\ lastCall.op = "yolo_get_cuda_stream" /\ lastCall.ret # NULL =>
          reported.stream = "yolo.stream" /\ lastCall.ret = "yolo.stream"

StableAddressesWitness ==
    /\ lastCall.op = "yolo_get_tensorrt_buffers" /\ lastCall.ret = "true"
    /\ bound.yolo.images = "ext.input"
    /\ reported.input = "yolo.dev0"

\* C8 as stated: the counts the size query reports are the counts the device
\* buffers were allocated with and the counts of the device-to-host copies.
ReportedSizesAreCopySizes ==
    /\ lastCall.op = "tensorrt_get_output_sizes" /\ lastCall.ret = "true" =>
          /\ reported.output_size = allocElems["trt.output"]
          /\ reported.output_seg_size = allocElems["trt.proto"]
    /\ lastCall.op = "tensorrt_inference" /\ Len(callOps) >= 3 =>
          callOps[3].count = TrtReportedSizes(trt)[1]
    /\ lastCall.op = "tensorrt_inference" /\ Len(callOps) >= 4 =>
          callOps[4].count = TrtReportedSizes(trt)[2]
    /\ lastCall.op = "yolo_get_tensorrt_info" /\ lastCall.ret = "true"
          /\ yolo.initialized =>
          /\ reported.output_size = allocElems["yolo.dev1"]
          /\ reported.output_seg_size = allocElems["yolo.dev2"]
    /\ lastCall.op \in {"yolo_inference", "yolo_inference_fast",
                        "yolo_inference_from_memory",
                        "yolo_inference_from_memory_fast"}
          /\ Len(callOps) = 5 =>
          /\ callOps[3].count = YoloReportedSizes[2]
          /\ callOps[4].count = YoloReportedSizes[3]

\* C8: the counts the size query reports are the counts the device buffers
\* were allocated with (per kBatchSize image for the YOLO session); the
\* device-to-host copies of the YOLO session have these counts, those of
\* tensorrt_inference have batch_size / max_batch_size times the reported
\* counts, which is the reported count when batch_size = max_batch_size.
ReportedSizesAreAllocSizes ==
    /\ lastCall.op = "tensorrt_get_output_sizes" /\ lastCall.ret = "true" =>
          /\ reported.output_size = allocElems["trt.output"]
          /\ reported.output_seg_size = allocElems["trt.proto"]
    /\ lastCall.op = "tensorrt_inference" /\ Len(callOps) >= 3 =>
          callOps[3].count * trt.max_batch_size
              = lastCall.batch_size * TrtReportedSizes(trt)[1]
    /\ lastCall.op = "tensorrt_inference" /\ Len(callOps) >= 4 =>
          callOps[4].count * trt.max_batch_size
              = lastCall.batch_size * TrtReportedSizes(trt)[2]
    /\ lastCall.op = "yolo_get_tensorrt_info" /\ lastCall.ret = "true"
          /\ yolo.initialized =>
          /\ kBatchSize * reported.output_size = allocElems["yolo.dev1"]
          /\ kBatchSize * reported.output_seg_size = allocElems["yolo.dev2"]
    /\ lastCall.op \in {"yolo_inference", "yolo_inference_fast",
                        "yolo_inference_from_memory",
                        "yolo_inference_from_memory_fast"}
          /\ Len(callOps) = 5 =>
          /\ callOps[3].count = kBatchSize * YoloReportedSizes[2]
          /\ callOps[4].count = kBatchSize * YoloReportedSizes[3]

PartialBatchWitness ==
    /\ lastCall.op = "tensorrt_inference" /\ lastCall.ret = "true"
    /\ lastCall.batch_size = 1 /\ trt.max_batch_size = 2
    /\ callOps[3].count < TrtReportedSizes(trt)[1]

\* C9: for max_batch = 1 and a 640 by 640 input the size query of a session
\* reports K * S + 1 detection-output elements, K and S being the maximum
\* detection count and record stride of the session, and 32 * 160 * 160
\* proto-output elements.
SizesAreKTimesStridePlusOne ==
    /\ lastCall.op = "tensorrt_get_output_sizes" /\ lastCall.ret = "true"
          /\ trt.max_batch_size = 1
          /\ trt.input_width = 640 /\ trt.input_height = 640 =>
          /\ reported.output_size = kTrtAssumedBoxes * kTrtAssumedStride + 1
          /\ reported.output_seg_size = 32 * 160 * 160
    /\ lastCall.op = "yolo_get_tensorrt_info" /\ lastCall.ret = "true" =>
          /\ reported.output_size = kMaxNumOutputBbox * det_size + 1
          /\ reported.output_seg_size = 32 * 160 * 160

BatchImages == 2
BatchCap == 1
MaskFloats == 0
Stride == 4 + 1 + 1 + MaskFloats
SliceSize == 1 + Stride * BatchCap

\* what a read of the float at 0-based offset k can yield: the float, or, past
\* the end of the array, whatever the memory there holds
GarbageFloats == {0, 5}
FloatAt(buf, k) == IF k + 1 \in 1..Len(buf) THEN {buf[k + 1]} ELSE GarbageFloats

\* the Detection memcpy reads at record index i (0-based) from pointer p
RecordAt(buf, p, i) ==
    LET at == p + 1 + Stride * i IN
    {[bbox |-> <<b0, b1, b2, b3>>, conf |-> F(c), class_id |-> k] :
        b0 \in FloatAt(buf, at), b1 \in FloatAt(buf, at + 1),
        b2 \in FloatAt(buf, at + 2), b3 \in FloatAt(buf, at + 3),
        c \in FloatAt(buf, at + 4), k \in FloatAt(buf, at + 5)}

\* the record indices the first loop of nms visits from pointer p: every
\* i < output[0]
ReadIndices(buf, p) == 0..(buf[p + 1] - 1)

\* the count-prefixed tensor nms reads from pointer p: output[0] records,
\* wherever they lie
TensorsAt(buf, p) ==
    LET n == buf[p + 1] IN
    {[count |-> n, recs |-> r] :
        r \in {q \in [1..n -> UNION {RecordAt(buf, p, i) : i \in ReadIndices(buf, p)}] :
                 \A i \in 1..n : q[i] \in RecordAt(buf, p, i - 1)}}

\* the result vectors batch_nms can fill for the first n images
RECURSIVE BatchNmsResults(_, _, _, _, _)
BatchNmsResults(buf, n, output_size, ct, nt) ==
    IF n = 0 THEN {<<>>}
    ELSE {Append(before, r) :
            before \in BatchNmsResults(buf, n - 1, output_size, ct, nt),
            r \in UNION {NmsResults(t, ct, nt) :
                            t \in TensorsAt(buf, (n - 1) * output_size)}}

\* batch_nms(res_batch, output, batch_size, output_size, conf_thresh,
\* nms_thresh) on an empty res_batch
batch_nms ==
    /\ fn = "batch_nms" /\ fnPc = "input"
    /\ result' \in BatchNmsResults(args.output, args.batch_size, args.output_size,
                                   args.conf_thresh, args.nms_thresh)
    /\ fnPc' = "done"
    /\ UNCHANGED <<fn, args, sessionVars, unit, nmsVars>>

\* the inputs of batch_nms: a buffer of BatchImages slices, each with a count
\* of at most one more than the records it has room for
BatchDets == [bbox : {<<0, 0, 4, 4>>, <<1, 0, 5, 4>>}, conf : {1, 3}, class_id : {0}]
Slices == [count : 0..(BatchCap + 1), recs : [1..BatchCap -> BatchDets]]
FlattenRec(d) ==
    <<d.bbox[1], d.bbox[2], d.bbox[3], d.bbox[4], d.conf, d.class_id>>
        \o [j \in 1..MaskFloats |-> 0]
RECURSIVE FlattenRecs(_)
FlattenRecs(recs) ==
    IF recs = <<>> THEN <<>> ELSE FlattenRec(Head(recs)) \o FlattenRecs(Tail(recs))
RECURSIVE Flatten(_)
Flatten(slices) ==
    IF slices = <<>> THEN <<>>
    ELSE <<Head(slices).count>> \o FlattenRecs(Head(slices).recs)
         \o Flatten(Tail(slices))

BatchInit ==
    /\ SessionInit
    /\ unit = "yolo_c_api"
    /\ NmsIdle
    /\ fn = "batch_nms"
    /\ \E slices \in [1..BatchImages -> Slices], n \in 0..BatchImages :
          args = [output |-> Flatten(slices), batch_size |-> n,
                  output_size |-> SliceSize,
                  conf_thresh |-> F(2), nms_thresh |-> <<1, 2>>]
    /\ result = <<>>
    /\ fnPc = "input"

BatchNext == batch_nms

SpecBatch == BatchInit /\ [][BatchNext]_vars

\* -------------------------------------------------------------- get_rect
\* A float is the exact fraction <<n, d>>, d > 0: the image sizes and the
\* coordinates of the model are dyadic, so that every product and quotient
\* get_rect forms is exact in float.
Fr(n) == <<n, 1>>
RECURSIVE Gcd(_, _)
Gcd(a, b) == IF b = 0 THEN a ELSE Gcd(b, a % b)
Abs(n) == IF n < 0 THEN -n ELSE n
\* the fraction in lowest terms
Lowest(a) == LET g == Gcd(Abs(a[1]), a[2]) IN <<a[1] \div g, a[2] \div g>>
FrSub(a, b) == Lowest(<<a[1] * b[2] - b[1] * a[2], a[2] * b[2]>>)
FrMul(a, b) == Lowest(<<a[1] * b[1], a[2] * b[2]>>)
\* a / b for b > 0
FrDiv(a, b) == Lowest(<<a[1] * b[2], a[2] * b[1]>>)
FrGt(a, b) == a[1] * b[2] > b[1] * a[2]
FrMax0(a) == IF a[1] < 0 THEN Fr(0) ELSE a
\* int(round(x)): to the nearest integer, halves away from zero
FrRound(a) ==
    IF a[1] >= 0 THEN (2 * a[1] + a[2]) \div (2 * a[2])
    ELSE -((2 * (-a[1]) + a[2]) \div (2 * a[2]))

\* a get_rect that multiplies by the scale where it has to divide
get_rect_Multiplies(img, bbox) ==
    LET r_w == Lowest(<<kInputW, img.cols>>)
        r_h == Lowest(<<kInputH, img.rows>>)
        wide == FrGt(r_h, r_w)
        sc == IF wide THEN r_w ELSE r_h
        padX == IF wide THEN Fr(0)
                ELSE FrDiv(FrSub(Fr(kInputW), FrMul(r_h, Fr(img.cols))), Fr(2))
        padY == IF wide
                THEN FrDiv(FrSub(Fr(kInputH), FrMul(r_w, Fr(img.rows))), Fr(2))
                ELSE Fr(0)
        l == FrMax0(FrMul(FrSub(bbox[1], padX), sc))
        t == FrMax0(FrMul(FrSub(bbox[2], padY), sc))
        r == FrMul(FrSub(bbox[3], padX), sc)
        b == FrMul(FrSub(bbox[4], padY), sc)
    IN <<FrRound(l), FrRound(t),
         Max(0, Min(FrRound(FrSub(r, l)), img.cols - FrRound(l))),
         Max(0, Min(FrRound(FrSub(b, t)), img.rows - FrRound(t)))>>

\* get_rect(img, bbox): the corner box bbox (left, top, right, bottom) of the
\* letterboxed network input as the cv::Rect (x, y, width, height) of the image
get_rect(img, bbox) ==
    LET r_w == Lowest(<<kInputW, img.cols>>)
        r_h == Lowest(<<kInputH, img.rows>>)
        wide == FrGt(r_h, r_w)
        sc == IF wide THEN r_w ELSE r_h
        padX == IF wide THEN Fr(0)
                ELSE FrDiv(FrSub(Fr(kInputW), FrMul(r_h, Fr(img.cols))), Fr(2))
        padY == IF wide
                THEN FrDiv(FrSub(Fr(kInputH), FrMul(r_w, Fr(img.rows))), Fr(2))
                ELSE Fr(0)
        l == FrMax0(FrDiv(FrSub(bbox[1], padX), sc))
        t == FrMax0(FrDiv(FrSub(bbox[2], padY), sc))
        r == FrDiv(FrSub(bbox[3], padX), sc)
        b == FrDiv(FrSub(bbox[4], padY), sc)
    IN <<FrRound(l), FrRound(t),
         Max(0, Min(FrRound(FrSub(r, l)), img.cols - FrRound(l))),
         Max(0, Min(FrRound(FrSub(b, t)), img.rows - FrRound(t)))>>

\* a call of get_rect on an image and a box
call_get_rect ==
    /\ fn = "get_rect" /\ fnPc = "input"
    /\ result' = get_rect(args.img, args.bbox)
    /\ fnPc' = "done"
    /\ UNCHANGED <<fn, args, sessionVars, unit, nmsVars>>

\* the inputs of get_rect: images of the network's aspect ratio at three
\* scales, a wide and a tall image; boxes inside the network input, boxes
\* that stick out of it and boxes that lie to the right of it or below it
ImageSizes ==
    {[cols |-> 640, rows |-> 640], [cols |-> 1280, rows |-> 1280],
     [cols |-> 320, rows |-> 320], [cols |-> 1280, rows |-> 640],
     [cols |-> 640, rows |-> 1280]}
NearEdges == {<<-8, 1>>, <<0, 1>>, <<21, 2>>, <<100, 1>>, <<700, 1>>}
FarEdges == {<<100, 1>>, <<321, 2>>, <<640, 1>>, <<700, 1>>}
RectBoxes == NearEdges \X NearEdges \X FarEdges \X FarEdges

RectInit ==
    /\ SessionInit
    /\ unit = "yolo_c_api"
    /\ NmsIdle
    /\ fn = "get_rect"
    /\ args \in [img : ImageSizes, bbox : RectBoxes]
    /\ result = <<>>
    /\ fnPc = "input"

RectNext == call_get_rect

SpecRect == RectInit /\ [][RectNext]_vars

\* ---------------------------------------------------------- process_mask
\* int(x): truncation toward zero
FrTrunc(a) == IF a[1] >= 0 THEN a[1] \div a[2] ELSE -((-a[1]) \div a[2])
FrAdd(a, b) == Lowest(<<a[1] * b[2] + b[1] * a[2], a[2] * b[2]>>)
FrMin(a, b) == IF FrGt(a, b) THEN b ELSE a

\* get_downscale_rect(bbox, scale): bbox is (x, y, width, height) in network
\* input pixels; the result is the cv::Rect (x, y, width, height) on the
\* proto grid
get_downscale_rect(bbox, scale) ==
    LET left == FrDiv(FrMax0(Fr(bbox[1])), Fr(scale))
        top == FrDiv(FrMax0(Fr(bbox[2])), Fr(scale))
        right == FrDiv(FrMin(FrAdd(Fr(bbox[1]), Fr(bbox[3])), Fr(kInputW)), Fr(scale))
        bottom == FrDiv(FrMin(FrAdd(Fr(bbox[2]), Fr(bbox[4])), Fr(kInputH)), Fr(scale))
    IN [x |-> FrTrunc(left), y |-> FrTrunc(top),
        width |-> FrTrunc(FrSub(right, left)),
        height |-> FrTrunc(FrSub(bottom, top))]

\* a loop that also visits x = r.x + r.width and y = r.y + r.height
InRect_Inclusive(r, p) ==
    /\ r.x <= p[1] /\ p[1] <= r.x + r.width
    /\ r.y <= p[2] /\ p[2] <= r.y + r.height

\* the two loops visit pixel p = <<x, y>>
InRect(r, p) ==
    /\ r.x <= p[1] /\ p[1] < r.x + r.width
    /\ r.y <= p[2] /\ p[2] < r.y + r.height

\* the number of pixels the two loops visit
PixelsEvaluated(r) == IF r.width > 0 /\ r.height > 0 THEN r.width * r.height ELSE 0

\* A mask value is kept by its place in the unit interval: exactly 0, strictly
\* between 0 and 1, exactly 1, above 1, or NaN.
\* 1.0f + expf(-e) is 1.0f from e = 17 on (expf(-17) is below half an ulp of
\* 1.0f); expf(-e) is +inf up to e = -89 (expf(89) exceeds FLT_MAX)
SigmoidOneFrom == 17
SigmoidZeroUpTo == -89

\* expf(e) for the sigmoid, 1.0f / expf(-e)
Sigmoid_NoPlusOne(e) ==
    IF IsNaN(e) THEN "nan"
    ELSE IF e.v < 0 THEN "open"
    ELSE IF e.v = 0 THEN "one"
    ELSE "above"

\* 1.0f / (1.0f + expf(-e)) in float
Sigmoid(e) ==
    IF IsNaN(e) THEN "nan"
    ELSE IF e.v >= SigmoidOneFrom THEN "one"
    ELSE IF e.v <= SigmoidZeroUpTo THEN "zero"
    ELSE "open"

\* the pixels of the proto grid the model looks at: the corner and its
\* right-hand neighbour
Probes == {<<0, 0>>, <<1, 0>>}

\* mask_mat before the resize, at the probes: zero where the loops did not
\* write, the sigmoid of the pixel's logit (the sum over j of
\* mask[j] * proto[j][pixel]) where they did
DecodedPlane(det) ==
    LET r == get_downscale_rect(det.bbox, 4) IN
    [p \in Probes |-> IF InRect(r, p) THEN Sigmoid(det.logit[p]) ELSE "zero"]

\* what a weighted mean of two values, both weights positive, can be in float
Blend(a, b) ==
    IF a = "nan" \/ b = "nan" THEN {"nan"}
    ELSE IF a = b THEN {a}
    ELSE IF "above" \in {a, b} THEN {"open", "one", "above"}
    ELSE {"open"} \cup ({a, b} \ {"open"})

\* cv::resize (bilinear) to the network input size, at two pixels of the
\* result: the corner, which copies the corner of the source, and a pixel
\* between the two probes, which is a weighted mean of them
Resized(plane) ==
    {[corner |-> plane[<<0, 0>>], between |-> v] :
        v \in Blend(plane[<<0, 0>>], plane[<<1, 0>>])}

\* the masks process_mask can return for dets, one per detection
RECURSIVE ProcessMaskResults(_)
ProcessMaskResults(dets) ==
    IF dets = <<>> THEN {<<>>}
    ELSE {<<[evaluated |-> PixelsEvaluated(get_downscale_rect(Head(dets).bbox, 4)),
             plane |-> DecodedPlane(Head(dets)),
             mask |-> m]>> \o rest :
            m \in Resized(DecodedPlane(Head(dets))),
            rest \in ProcessMaskResults(Tail(dets))}

\* process_mask(proto, proto_size, dets)
process_mask ==
    /\ fn = "process_mask" /\ fnPc = "input"
    /\ result' \in ProcessMaskResults(args.dets)
    /\ fnPc' = "done"
    /\ UNCHANGED <<fn, args, sessionVars, unit, nmsVars>>

\* the inputs of process_mask: up to MaxMaskDets detections; a box over the
\* whole input, one of zero width, one to the right of the input (negative
\* width after clamping) and a small one that leaves out the corner pixel;
\* the logits of the two probes: saturating to 1 and to 0, in between, NaN
MaxMaskDets == 2
MaskBoxes == {<<0, 0, 640, 640>>, <<4, 0, 0, 8>>, <<700, 0, 50, 50>>, <<4, 0, 8, 8>>}
LogitsAt(corner, next) == [p \in Probes |-> IF p = <<0, 0>> THEN corner ELSE next]
Logits == {LogitsAt(F(17), F(-89)), LogitsAt(F(0), F(17)),
           LogitsAt(NaN, F(0)), LogitsAt(F(-89), NaN)}
MaskDets == [bbox : MaskBoxes, logit : Logits]

MaskInit ==
    /\ SessionInit
    /\ unit = "yolo_c_api"
    /\ NmsIdle
    /\ fn = "process_mask"
    /\ \E n \in 0..MaxMaskDets : \E d \in [1..n -> MaskDets] : args = [dets |-> d]
    /\ result = <<>>
    /\ fnPc = "input"

MaskNext == process_mask

SpecMask == MaskInit /\ [][MaskNext]_vars

\* ------------------------------------ yolo_save_result_image: the drawing
\* the masks yolo_save_result_image rebuilds from a result: a clone of the
\* mask of every detection whose mask_data is not null, in order; a detection
\* without mask_data adds nothing
RECURSIVE RebuiltMasks(_)
RebuiltMasks(dets) ==
    IF dets = <<>> THEN <<>>
    ELSE (IF Head(dets).mask_data # NULL THEN <<Head(dets).mask_data>> ELSE <<>>)
         \o RebuiltMasks(Tail(dets))

\* what masks[i] yields for an i at or past masks.size(): the read is outside
\* the vector, the process stops or goes on with whatever lies there
OutOfRange == {"crash", "garbage"}

\* the mask draw_mask_bbox passes to scale_mask for each detection: masks[i]
DrawMaskReads(dets, masks) ==
    {r \in [1..Len(dets) -> SeqToSet(masks) \cup OutOfRange] :
        \A i \in 1..Len(dets) :
            IF i <= Len(masks) THEN r[i] = masks[i] ELSE r[i] \in OutOfRange}

\* yolo_save_result_image(handle, image_path, result, output_path) with valid
\* arguments and a readable image, up to the drawing
save_result_image_draw ==
    /\ fn = "yolo_save_result_image" /\ fnPc = "input"
    /\ result' \in DrawMaskReads(args.detections, RebuiltMasks(args.detections))
    /\ fnPc' = "done"
    /\ UNCHANGED <<fn, args, sessionVars, unit, nmsVars>>

\* the results passed to yolo_save_result_image: up to MaxDrawDets detections,
\* each without mask_data or with one of three mask buffers
MaxDrawDets == 3
MaskBuffers == {"mask.a", "mask.b", "mask.c"}
DrawDets == [mask_data : {NULL} \cup MaskBuffers]

DrawInit ==
    /\ SessionInit
    /\ unit = "yolo_c_api"
    /\ NmsIdle
    /\ fn = "yolo_save_result_image"
    /\ \E n \in 0..MaxDrawDets : \E d \in [1..n -> DrawDets] :
          args = [num_detections |-> n, detections |-> d]
    /\ result = <<>>
    /\ fnPc = "input"

DrawNext == save_result_image_draw

SpecDraw == DrawInit /\ [][DrawNext]_vars

\* ------------------- yolo_inference_from_memory_fast, statement by statement
\* The host thread runs the statements of one call in program order (fnPc is
\* the statement it is at); the stream executes what was enqueued on it in
\* order, at its own pace.  args holds the call: its number and its
\* skip_mask_copy, and n, the number of detections batch_nms will retain.
\* result holds the stages the call has run, for each host buffer the number
\* of the call whose copy last wrote it (0: none), and what batch_nms and
\* process_mask found when they read their buffer.
MaxCalls == 2
PipelineStream == "yolo.stream"

\* cudaStreamSynchronize returns without waiting
SyncReturns_AtOnce(queue) == TRUE

\* cudaStreamSynchronize(stream) returns when everything enqueued on the
\* stream has executed
SyncReturns(queue) == queue = <<>>

PipelineEnqueue(op) ==
    pending' = [pending EXCEPT ![PipelineStream] =
                   Append(@, [op |-> op, call |-> args.call])]

Ran2(stage) == result' = [result EXCEPT !.stages = Append(@, stage)]

PipelineFrame ==
    UNCHANGED <<fn, args, unit, nmsVars, trt, yolo, allocCount, freeCount,
                releaseLog, bound, trtLastError, yoloLastError, lastCall,
                callOps, reported, allocElems, yoloResult, cleanups>>

\* cuda_batch_preprocess(img_batch, device_buffers[0], kInputW, kInputH, stream)
stage_preprocess ==
    /\ fn = "yolo_inference_from_memory_fast" /\ fnPc = "preprocess"
    /\ PipelineEnqueue("PRE") /\ Ran2("preprocess")
    /\ fnPc' = "enqueue"
    /\ PipelineFrame

\* context->enqueueV3(stream)
stage_enqueue ==
    /\ fn = "yolo_inference_from_memory_fast" /\ fnPc = "enqueue"
    /\ PipelineEnqueue("FWD") /\ Ran2("enqueue")
    /\ fnPc' = "copy_output"
    /\ PipelineFrame

\* cudaMemcpyAsync(output_buffer_host, output_buffer, ..., stream)
stage_copy_output ==
    /\ fn = "yolo_inference_from_memory_fast" /\ fnPc = "copy_output"
    /\ PipelineEnqueue("D2H output") /\ Ran2("copy_output")
    /\ fnPc' = "copy_proto"
    /\ PipelineFrame

\* cudaMemcpyAsync(output_seg_buffer_host, output_seg_buffer, ..., stream)
stage_copy_proto ==
    /\ fn = "yolo_inference_from_memory_fast" /\ fnPc = "copy_proto"
    /\ PipelineEnqueue("D2H proto") /\ Ran2("copy_proto")
    /\ fnPc' = "synchronize"
    /\ PipelineFrame

\* cudaStreamSynchronize(stream)
stage_synchronize ==
    /\ fn = "yolo_inference_from_memory_fast" /\ fnPc = "synchronize"
    /\ SyncReturns(pending[PipelineStream])
    /\ Ran2("synchronize")
    /\ fnPc' = "nms"
    /\ UNCHANGED pending
    /\ PipelineFrame

\* batch_nms(res_batch, output_buffer_host, ...): reads the host output buffer
stage_batch_nms ==
    /\ fn = "yolo_inference_from_memory_fast" /\ fnPc = "nms"
    /\ result' = [result EXCEPT !.stages = Append(@, "nms"),
                                !.nms_read = result.host.output]
    /\ fnPc' = IF args.n > 0 /\ ~args.skip_mask_copy THEN "mask" ELSE "fill"
    /\ UNCHANGED pending
    /\ PipelineFrame

\* process_mask(output_seg_buffer_host, ...): reads the host proto buffer
stage_process_mask ==
    /\ fn = "yolo_inference_from_memory_fast" /\ fnPc = "mask"
    /\ result' = [result EXCEPT !.stages = Append(@, "mask"),
                                !.mask_read = result.host.proto]
    /\ fnPc' = "fill"
    /\ UNCHANGED pending
    /\ PipelineFrame

\* the loop that fills result->detections, and the return
stage_fill_result ==
    /\ fn = "yolo_inference_from_memory_fast" /\ fnPc = "fill"
    /\ Ran2("fill")
    /\ fnPc' = "returned"
    /\ UNCHANGED pending
    /\ PipelineFrame

\* the caller calls again, with the next image
next_call ==
    /\ fn = "yolo_inference_from_memory_fast" /\ fnPc = "returned"
    /\ args.call < MaxCalls
    /\ \E skip \in BOOLEAN, n \in 0..MaxResultDets :
          args' = [call |-> args.call + 1, skip_mask_copy |-> skip, n |-> n]
    /\ result' = [result EXCEPT !.stages = <<>>, !.nms_read = 0, !.mask_read = 0]
    /\ fnPc' = "preprocess"
    /\ UNCHANGED <<fn, unit, nmsVars, sessionVars>>

\* the stream executes its oldest operation; a device-to-host copy writes the
\* host buffer
stream_executes ==
    /\ fn = "yolo_inference_from_memory_fast"
    /\ pending[PipelineStream] # <<>>
    /\ LET o == Head(pending[PipelineStream]) IN
       result' = [result EXCEPT
                     !.host.output = IF o.op = "D2H output" THEN o.call ELSE @,
                     !.host.proto = IF o.op = "D2H proto" THEN o.call ELSE @]
    /\ pending' = [pending EXCEPT ![PipelineStream] = Tail(@)]
    /\ UNCHANGED fnPc
    /\ PipelineFrame

PipelineInit ==
    /\ SessionInit
    /\ unit = "yolo_c_api"
    /\ NmsIdle
    /\ fn = "yolo_inference_from_memory_fast"
    /\ \E skip \in BOOLEAN, n \in 0..MaxResultDets :
          args = [call |-> 1, skip_mask_copy |-> skip, n |-> n]
    /\ result = [stages |-> <<>>, host |-> [output |-> 0, proto |-> 0],
                 nms_read |-> 0, mask_read |-> 0]
    /\ fnPc = "preprocess"

PipelineNext ==
    \/ stage_preprocess
    \/ stage_enqueue
    \/ stage_copy_output
    \/ stage_copy_proto
    \/ stage_synchronize
    \/ stage_batch_nms
    \/ stage_process_mask
    \/ stage_fill_result
    \/ next_call
    \/ stream_executes

SpecPipeline == PipelineInit /\ [][PipelineNext]_vars

\* ------------------------------------------- several sessions in one process
\* Each session owns its stream, its three device buffers and its two host
\* buffers.  Two things belong to the process, not to a session: g_last_error,
\* the one string set_error writes, and the staging buffers of the
\* pre-processing, which cuda_preprocess_init() allocates and
\* cuda_preprocess_destroy() frees; neither function is given a session.
\* result holds, per session, its state and whether its own resources are
\* allocated; the state of the staging buffers; g_last_error; and for each of
\* the two process-wide objects the sessions whose calls have set or released
\* it; and per session how its last inference went.
MaxSessions == 2
Sessions == 1..MaxSessions

\* what pre-processing through staging buffers that were freed can do
UseAfterFree == {"crash", "garbage"}

\* the outcomes of one inference, from the state of the staging buffers
InferenceOutcomes(preprocess) ==
    IF preprocess = "allocated" THEN {"ok"} ELSE UseAfterFree

Wrote(obj, s) == [result.writers EXCEPT ![obj] = @ \cup {s}]

\* yolo_create_inference for session s: a failure to deserialize the engine
\* stores its message and builds nothing; a success allocates the session's
\* resources and (re)initialises the pre-processing
session_create(s, fail) ==
    /\ fn = "sessions"
    /\ result.state[s] = "none"
    /\ IF fail
       THEN result' = [result EXCEPT !.g_last_error = "Failed to deserialize engine",
                                     !.writers = Wrote("g_last_error", s)]
       ELSE result' = [result EXCEPT !.state[s] = "live",
                                     !.own[s] = TRUE,
                                     !.preprocess = "allocated",
                                     !.writers = Wrote("preprocess", s)]
    /\ UNCHANGED <<fn, args, fnPc, sessionVars, unit, nmsVars>>

\* yolo_inference_from_memory_fast on live session s: with a null argument it
\* stores "Invalid parameters"; otherwise it pre-processes through the staging
\* buffers into the session's input buffer and runs on the session's stream
session_inference(s, nullArg) ==
    /\ fn = "sessions"
    /\ result.state[s] = "live"
    /\ IF nullArg
       THEN result' = [result EXCEPT !.g_last_error = "Invalid parameters",
                                     !.writers = Wrote("g_last_error", s)]
       ELSE \E outcome \in InferenceOutcomes(result.preprocess) :
               result' = [result EXCEPT !.ran[s] = outcome]
    /\ UNCHANGED <<fn, args, fnPc, sessionVars, unit, nmsVars>>

\* yolo_destroy_inference on live session s: cleanup() releases the session's
\* resources and calls cuda_preprocess_destroy()
session_destroy(s) ==
    /\ fn = "sessions"
    /\ result.state[s] = "live"
    /\ result' = [result EXCEPT !.state[s] = "destroyed",
                                !.own[s] = FALSE,
                                !.preprocess = "freed",
                                !.writers = Wrote("preprocess", s)]
    /\ UNCHANGED <<fn, args, fnPc, sessionVars, unit, nmsVars>>

SessionsInit ==
    /\ SessionInit
    /\ unit = "yolo_c_api"
    /\ NmsIdle
    /\ fn = "sessions"
    /\ args = <<>>
    /\ result = [state |-> [s \in Sessions |-> "none"],
                 own |-> [s \in Sessions |-> FALSE],
                 ran |-> [s \in Sessions |-> "never"],
                 preprocess |-> "none",
                 g_last_error |-> "",
                 writers |-> [obj \in {"g_last_error", "preprocess"} |-> {}]]
    /\ fnPc = "idle"

SessionsNext ==
    \/ \E s \in Sessions, fail \in BOOLEAN : session_create(s, fail)
    \/ \E s \in Sessions, nullArg \in BOOLEAN : session_inference(s, nullArg)
    \/ \E s \in Sessions : session_destroy(s)

SpecSessions == SessionsInit /\ [][SessionsNext]_vars

\* =============================== properties of the post-processing helpers
\* the records of class c in a sequence of detections, in order
OfClass(dets, c) == SelectSeq(dets, LAMBDA d : d.class_id = c)
\* the records of the input tensor that pass the confidence filter
PassingRecords == SelectSeq(Prefix(output.recs, output.count),
                            LAMBDA d : ~IsNaN(d.conf) /\ FGt(d.conf, conf_thresh))
\* the intersection over union of two boxes exceeds the threshold nt
Overlapping(a, b, nt) ==
    LET l == Max(a[1], b[1])  r == Min(a[3], b[3])
        t == Max(a[2], b[2])  bt == Min(a[4], b[4])
        inter == (r - l) * (bt - t)
        union == (a[3] - a[1]) * (a[4] - a[2]) + (b[3] - b[1]) * (b[4] - b[2]) - inter
    IN l <= r /\ t <= bt /\ union > 0 /\ inter * nt[2] > nt[1] * union

\* C11: when the only records of a class are two records that pass the
\* confidence filter and overlap by more than the IoU threshold, the output
\* holds exactly one record of that class: the one with the higher
\* confidence, or with equal confidences the one with the smaller bbox[0]
\* (either of them when these are equal too).
NmsPairKeepsBest ==
    nmsPc = "done" =>
        \A c \in ClassIds :
            LET p == OfClass(PassingRecords, c) IN
            Len(p) = 2 /\ Overlapping(p[1].bbox, p[2].bbox, nms_thresh) =>
                LET a == p[1]  b == p[2]
                    best == IF a.conf.v > b.conf.v THEN {a}
                            ELSE IF b.conf.v > a.conf.v THEN {b}
                            ELSE IF a.bbox[1] < b.bbox[1] THEN {a}
                            ELSE IF b.bbox[1] < a.bbox[1] THEN {b}
                            ELSE {a, b}
                IN /\ Len(OfClass(res, c)) = 1
                   /\ OfClass(res, c)[1] \in best

NmsPairWitness ==
    /\ nmsPc = "done"
    /\ output.count = 2
    /\ output.recs[1].class_id = output.recs[2].class_id
    /\ FEq(output.recs[1].conf, output.recs[2].conf)
    /\ FGt(output.recs[1].conf, conf_thresh)
    /\ output.recs[1].bbox[1] > output.recs[2].bbox[1]
    /\ res = <<output.recs[2]>>

\* the input tensor with the records of the classes other than c removed
OnlyClass(out, c) == Encode(OfClass(Prefix(out.recs, out.count), c))

\* C12: the records of a class in the output of nms are an output of nms on
\* the input's records of that class alone; in particular two records of
\* different classes with the same box that pass the filter are both put out.
NmsPerClass ==
    nmsPc = "done" =>
        /\ \A c \in ClassIds :
              OfClass(res, c) \in NmsResults(OnlyClass(output, c), conf_thresh,
                                             nms_thresh)
        /\ \A i, j \in 1..Len(PassingRecords) :
              LET a == PassingRecords[i]  b == PassingRecords[j] IN
              a.class_id # b.class_id /\ a.bbox = b.bbox
                  /\ Len(PassingRecords) = 2 =>
                  SeqToSet(res) = {a, b} /\ Len(res) = 2

NmsPerClassWitness ==
    /\ nmsPc = "done"
    /\ Len(res) = 2
    /\ res[1].bbox = res[2].bbox
    /\ res[1].class_id # res[2].class_id
    /\ nms_thresh = <<1, 4>>

\* C13: nms run again on its encoded output with the same thresholds puts
\* out the same set of detections.
NmsIdempotent ==
    nmsPc = "rerun" =>
        SeqToSet(res) = SeqToSet(Prefix(output.recs, output.count))

NmsIdempotentWitness ==
    /\ nmsPc = "rerun"
    /\ Len(res) = 2
    /\ res[1].class_id = res[2].class_id
    /\ res[1] # output.recs[1]

\* C14: when the intersection of the two boxes is empty (its right edge is
\* left of its left edge, or its bottom above its top) iou returns exactly 0.
IouDisjointIsZero ==
    fn = "iou" /\ fnPc = "done" =>
        LET l == Max(args.lbox[1], args.rbox[1])
            r == Min(args.lbox[3], args.rbox[3])
            t == Max(args.lbox[2], args.rbox[2])
            b == Min(args.lbox[4], args.rbox[4])
        IN r < l \/ b < t => result[1] = 0 /\ result[2] # 0

IouDisjointWitness ==
    /\ fn = "iou" /\ fnPc = "done"
    /\ args.lbox = <<0, 0, 1, 2>>
    /\ args.rbox = <<2, 0, 2, 1>>
    /\ result = <<0, 1>>

\* the tensor of image i (1-based) made of the floats of its own slice only:
\* its count, and the records the slice has room for
OwnSlice(buf, i, output_size) ==
    LET p == (i - 1) * output_size
        n == Min(buf[p + 1], (output_size - 1) \div Stride)
    IN [count |-> n,
        recs |-> [k \in 1..n |->
                    CHOOSE d \in RecordAt(buf, p, k - 1) : TRUE]]

\* C15: for every image i below batch_size the i-th result of batch_nms is the
\* result of nms on image i's slice alone, whatever the other slices hold.
BatchSlicesIndependent ==
    fn = "batch_nms" /\ fnPc = "done" =>
        /\ Len(result) = args.batch_size
        /\ \A i \in 1..args.batch_size :
              result[i] \in NmsResults(OwnSlice(args.output, i, args.output_size),
                                       args.conf_thresh, args.nms_thresh)

\* the box lies inside the network input
InsideInput(bbox) ==
    /\ bbox[1][1] >= 0 /\ bbox[2][1] >= 0
    /\ ~FrGt(bbox[1], bbox[3]) /\ ~FrGt(bbox[2], bbox[4])
    /\ ~FrGt(bbox[3], Fr(kInputW)) /\ ~FrGt(bbox[4], Fr(kInputH))
\* the image has the aspect ratio of the network input
SameAspect(img) == img.cols * kInputH = img.rows * kInputW
\* the integer k is within one of the fraction a
WithinOne(k, a) ==
    /\ (k - 1) * a[2] <= a[1]
    /\ a[1] <= (k + 1) * a[2]

\* C16 as stated: for an image of the network's aspect ratio get_rect returns
\* the box it was given (left, top, width, height), each within 1 pixel.
GetRectReturnsSameBox ==
    fn = "get_rect" /\ fnPc = "done"
        /\ SameAspect(args.img) /\ InsideInput(args.bbox) =>
        /\ WithinOne(result[1], args.bbox[1])
        /\ WithinOne(result[2], args.bbox[2])
        /\ WithinOne(result[3], FrSub(args.bbox[3], args.bbox[1]))
        /\ WithinOne(result[4], FrSub(args.bbox[4], args.bbox[2]))

\* C16: for an image of the network's aspect ratio get_rect returns the box it
\* was given scaled by img.cols / kInputW, each coordinate within 1 pixel: the
\* same box when the image has the size of the network input.
GetRectReturnsScaledBox ==
    fn = "get_rect" /\ fnPc = "done"
        /\ SameAspect(args.img) /\ InsideInput(args.bbox) =>
        LET k == Lowest(<<args.img.cols, kInputW>>) IN
        /\ WithinOne(result[1], FrMul(args.bbox[1], k))
        /\ WithinOne(result[2], FrMul(args.bbox[2], k))
        /\ WithinOne(result[3], FrMul(FrSub(args.bbox[3], args.bbox[1]), k))
        /\ WithinOne(result[4], FrMul(FrSub(args.bbox[4], args.bbox[2]), k))

GetRectScaledWitness ==
    /\ fn = "get_rect" /\ fnPc = "done"
    /\ args.img = [cols |-> 1280, rows |-> 1280]
    /\ args.bbox = <<<<100, 1>>, <<21, 2>>, <<640, 1>>, <<321, 2>>>>
    /\ result = <<200, 21, 1080, 300>>

MaskDone == fn = "process_mask" /\ fnPc = "done"

\* the values the model holds of detection i's mask: the plane before the
\* resize and the resized mask
MaskValues(m) == {m.plane[p] : p \in Probes} \cup {m.mask.corner, m.mask.between}

\* pixel p is not visited by the loops over rectangle r
OutsideRect(r, p) ==
    \/ p[1] < r.x \/ p[1] >= r.x + r.width
    \/ p[2] < r.y \/ p[2] >= r.y + r.height

\* C17, as stated: for any retained detection and any proto tensor, every
\* value of the decoded mask produced by process_mask lies strictly between 0
\* and 1.
MaskValuesStrictlyInside ==
    MaskDone => \A i \in 1..Len(result) : MaskValues(result[i]) \subseteq {"open"}

\* C17, amended: every value of the decoded mask is NaN or lies in the closed
\* interval [0, 1]; NaN occurs only when a logit inside the rectangle is NaN,
\* and a pixel the rectangle leaves out is exactly 0 before the resize.
MaskValuesInClosedUnit ==
    MaskDone =>
        \A i \in 1..Len(result) :
            LET r == get_downscale_rect(args.dets[i].bbox, 4) IN
            /\ MaskValues(result[i]) \subseteq {"zero", "open", "one", "nan"}
            /\ "nan" \in MaskValues(result[i]) =>
                   \E p \in Probes : ~OutsideRect(r, p) /\ IsNaN(args.dets[i].logit[p])
            /\ \A p \in Probes : OutsideRect(r, p) => result[i].plane[p] = "zero"

\* a box over the whole input whose corner logit is 17 and whose next logit is
\* -89: the sigmoid gives exactly 1 and exactly 0
MaskSaturatesWitness ==
    /\ MaskDone
    /\ \E i \in 1..Len(result) :
        /\ args.dets[i].bbox = <<0, 0, 640, 640>>
        /\ args.dets[i].logit[<<0, 0>>] = F(17)
        /\ args.dets[i].logit[<<1, 0>>] = F(-89)
        /\ result[i].plane[<<0, 0>>] = "one"
        /\ result[i].plane[<<1, 0>>] = "zero"
        /\ result[i].mask.corner = "one"

EmptyRect(r) == r.width <= 0 \/ r.height <= 0

\* C18: when a detection's downscaled rectangle has zero or negative width or
\* height, process_mask evaluates no pixel for it and its mask is all zero;
\* there is one mask per detection (no error), and the mask of every other
\* detection is one it can have when processed alone.
EmptyRectGivesZeroMask ==
    MaskDone =>
        /\ Len(result) = Len(args.dets)
        /\ \A i \in 1..Len(result) :
            /\ EmptyRect(get_downscale_rect(args.dets[i].bbox, 4)) =>
                   /\ result[i].evaluated = 0
                   /\ MaskValues(result[i]) = {"zero"}
            /\ <<result[i]>> \in ProcessMaskResults(<<args.dets[i]>>)

\* a detection to the right of the input (negative width after clamping)
\* followed by one over the whole input whose corner saturates to 1
EmptyRectWitness ==
    /\ MaskDone
    /\ Len(result) = 2
    /\ args.dets[1].bbox = <<700, 0, 50, 50>>
    /\ get_downscale_rect(args.dets[1].bbox, 4).width < 0
    /\ args.dets[1].logit[<<0, 0>>] = F(17)
    /\ MaskValues(result[1]) = {"zero"}
    /\ args.dets[2].bbox = <<0, 0, 640, 640>>
    /\ result[2].plane[<<0, 0>>] = "one"

\* ===================================== properties of the error reporting
\* the stored message of the unit whose functions are being called
UnitLastError == IF unit = "tensorrt_inference" THEN trtLastError ELSE yoloLastError

\* the functions that return nothing
VoidOps == {"tensorrt_destroy", "yolo_destroy_inference"}

\* the call recorded in c returned failure: false, or a null pointer
Failed(c) == c.op \notin VoidOps /\ c.ret \in {"false", NULL}

\* the call recorded in lastCall was given a null handle or null pointer, or,
\* for tensorrt_inference, a batch_size that does not fit the session
InvalidArguments ==
    \/ lastCall.null_arg
    \/ /\ lastCall.op = "tensorrt_inference"
       /\ lastCall.batch_size \notin 1..trt.max_batch_size

\* C19: every public entry point called with a null handle, a null required
\* pointer or a mismatched size argument fails with InvalidParameters before
\* performing any device operation, and leaves the session state unchanged.
InvalidArgumentsRejected ==
    [][InvalidArguments' =>
          /\ callOps' = <<>>
          /\ UNCHANGED <<trt, yolo, allocCount, freeCount, releaseLog, bound,
                         pending, allocElems, yoloResult>>
          /\ lastCall'.op \notin VoidOps =>
                /\ Failed(lastCall')
                /\ UnitLastError' \in {"Invalid parameters", "Invalid handle"}]_vars

\* the messages a failing call to op can store
FailureMessages(op) ==
    CASE op = "tensorrt_create" -> {TrtCreateError(f) : f \in TrtCreateFailures}
      [] op = "tensorrt_inference" ->
            {"Invalid parameters", "TensorRT inference not initialized"}
                \cup {TrtInferenceError(k) : k \in 1..5}
      [] op = "tensorrt_get_output_sizes" ->
            {"Invalid parameters", "TensorRT inference not initialized"}
      [] op = "yolo_create_inference" -> {YoloCreateError(f) : f \in YoloCreateFailures}
      [] op \in {"yolo_inference", "yolo_inference_fast", "yolo_save_result_image"} ->
            {"Invalid parameters", "Failed to read image"}
      [] op = "yolo_get_cuda_stream" -> {"Invalid handle"}
      [] OTHER -> {"Invalid parameters"}

\* C20: after any public call that returns failure the stored message is one
\* that describes a failure of that call (of a null argument exactly when the
\* call was given one), never the empty string; a successful call leaves the
\* stored message unchanged.
LastErrorDescribesFailure ==
    [][/\ Failed(lastCall') =>
             /\ UnitLastError' \in FailureMessages(lastCall'.op)
             /\ lastCall'.null_arg <=>
                    UnitLastError' \in {"Invalid parameters", "Invalid handle"}
       /\ lastCall'.ret = "true" => UnitLastError' = UnitLastError]_vars

\* ================================== properties of the full-image entry point
\* the mask fields of a YoloResult agree with skip_mask_copy
ResultShape(r, skip_mask_copy) ==
    /\ (r.detections = NULL) <=> (r.num_detections = 0)
    /\ Len(r.masks) = r.num_detections
    /\ \A i \in 1..Len(r.masks) :
          IF skip_mask_copy
          THEN /\ r.masks[i].mask_data = NULL
               /\ r.masks[i].mask_width = 0
               /\ r.masks[i].mask_height = 0
          ELSE /\ r.masks[i].mask_data # NULL
               /\ r.masks[i].len = r.masks[i].mask_width * r.masks[i].mask_height

\* C21: after a successful yolo_inference_from_memory_fast, detections is null
\* exactly when num_detections is 0; with skip_mask_copy every detection has
\* null mask_data and zero mask_width and mask_height; without it every
\* detection has mask_data holding exactly mask_width * mask_height values.
ResultMatchesSkipMaskCopy ==
    [][\A skip \in BOOLEAN, enqOk \in BOOLEAN, n \in 0..MaxResultDets :
          /\ yolo_inference_from_memory_fast(FALSE, skip, enqOk, n)
          /\ lastCall'.ret = "true"
          => ResultShape(yoloResult', skip)]_vars

\* a successful call that retained a detection and copied its mask
ResultWithMaskWitness ==
    /\ lastCall.op = "yolo_inference_from_memory_fast" /\ lastCall.ret = "true"
    /\ yoloResult.num_detections = 1
    /\ yoloResult.detections # NULL
    /\ yoloResult.masks[1].mask_data # NULL
    /\ yoloResult.masks[1].len = kInputW * kInputH

\* the entry points that run the whole pipeline on an image
FullImageOps == {"yolo_inference_from_memory_fast", "yolo_inference_from_memory",
                 "yolo_inference_fast", "yolo_inference"}

\* the last call ran the five stream operations of the pipeline
RanPipeline == lastCall.op \in FullImageOps /\ Len(callOps) = 5

\* C26: at every forward-pass enqueue made by the full-image entry point the
\* engine's input tensor is bound to the session's own input buffer, which the
\* pre-processor has just written, and the two outputs copied to the host come
\* from the buffers that forward pass wrote; also after earlier
\* yolo_tensorrt_inference_only calls that bound caller-supplied buffers.
ForwardPassReadsPreprocessed ==
    RanPipeline =>
        /\ callOps[1].op = "PRE" /\ callOps[2].op = "FWD"
        /\ callOps[1].dst = yolo.device_buffers[1]
        /\ callOps[2].src = callOps[1].dst
        /\ callOps[3].op = "D2H" /\ callOps[3].src = callOps[2].dst
        /\ callOps[4].op = "D2H" /\ callOps[4].src = callOps[2].dst2

\* the last call attempted a forward-pass enqueue and the engine refused it
EnqueueFailed == \E i \in 1..Len(callOps) : callOps[i].op = "FWD" /\ ~callOps[i].ok

\* C29: an entry point that enqueues a forward pass returns success only if
\* the enqueue succeeded: yolo_inference_from_memory_fast and
\* yolo_tensorrt_inference_only return failure, and produce no detections,
\* when the engine reports that the forward-pass enqueue failed.
EnqueueFailureIsReported ==
    /\ lastCall.op \in FullImageOps \cup {"yolo_tensorrt_inference_only"}
    /\ EnqueueFailed
    => /\ lastCall.ret = "false"
       /\ yoloResult.num_detections = 0

\* the device buffer a copy of tensorrt_inference reads or writes
DeviceSide(o) == IF o.op = "H2D" THEN o.dst ELSE o.src

\* C28: tensorrt_inference never enqueues a copy whose element count exceeds
\* the size of the device buffer tensorrt_create allocated for max_batch_size;
\* a call with batch_size greater than max_batch_size, or not positive, is
\* rejected without enqueuing any copy.
CopiesFitDeviceBuffers ==
    lastCall.op = "tensorrt_inference" /\ ~lastCall.null_arg =>
        /\ \A i \in 1..Len(callOps) :
              callOps[i].op \in {"H2D", "D2H"} =>
                  callOps[i].count <= allocElems[DeviceSide(callOps[i])]
        /\ lastCall.batch_size \notin 1..trt.max_batch_size =>
              /\ lastCall.ret = "false"
              /\ \A i \in 1..Len(callOps) : callOps[i].op \notin {"H2D", "D2H"}

\* ======================================== the reference greedy suppression
\* a ranks before b: higher confidence, or equal confidence and smaller left edge
RankedBefore(a, b) ==
    \/ a.conf.v > b.conf.v
    \/ a.conf.v = b.conf.v /\ a.bbox[1] < b.bbox[1]

\* the rankings of a bucket: its arrangements in which no record stands behind
\* one it ranks before (records equal in both keys may stand either way)
Rankings(b) ==
    LET n == Len(b)
        perms == {p \in [1..n -> 1..n] : \A i, j \in 1..n : i # j => p[i] # p[j]}
    IN {a \in {[i \in 1..n |-> b[p[i]]] : p \in perms} :
           \A i, j \in 1..n : i < j => ~RankedBefore(a[j], a[i])}

\* the positions of ranking a that are emitted: position i is emitted exactly
\* when no emitted position before it overlaps it by more than nt
EmittedPositions(a, nt) ==
    CHOOSE E \in SUBSET (1..Len(a)) :
        \A i \in 1..Len(a) :
            i \in E <=> \A j \in E : j < i => ~Overlapping(a[j].bbox, a[i].bbox, nt)

\* the records of a at the positions in E, in order
RECURSIVE AtPositions(_, _, _)
AtPositions(a, E, i) ==
    IF i > Len(a) THEN <<>>
    ELSE (IF i \in E THEN <<a[i]>> ELSE <<>>) \o AtPositions(a, E, i + 1)

\* C22: the nms output equals the reference per-class greedy sweep: for each
\* class the records passing the filter are ranked by descending confidence,
\* ties by ascending left edge, and a record is emitted exactly when no
\* earlier-ranked emitted record of its class has IoU with it above the
\* threshold; the records of one class appear in the output in rank order.
NmsEqualsReference ==
    nmsPc = "done" =>
        /\ \A c \in ClassIds :
              \E a \in Rankings(OfClass(PassingRecords, c)) :
                  OfClass(res, c) = AtPositions(a, EmittedPositions(a, nms_thresh), 1)
        /\ \A i \in 1..Len(res) : res[i].class_id \in ClassIds

\* three records of one class, the lowest-ranked first in the tensor: the
\* first-ranked one suppresses the third-ranked one, which the second-ranked
\* one does not overlap
NmsSweepWitness ==
    /\ nmsPc = "done"
    /\ output.count = 3
    /\ nms_thresh = <<1, 2>>
    /\ output.recs[1] = [bbox |-> <<1, 0, 5, 4>>, conf |-> F(2), class_id |-> 0]
    /\ output.recs[2] = [bbox |-> <<0, 0, 4, 12>>, conf |-> F(3), class_id |-> 0]
    /\ output.recs[3] = [bbox |-> <<0, 0, 4, 4>>, conf |-> F(4), class_id |-> 0]
    /\ res = <<output.recs[3], output.recs[2]>>

\* C23: for any image size and any bounding box the rectangle get_rect
\* returns lies inside the image: x >= 0, y >= 0, width >= 0, height >= 0,
\* x + width <= image width and y + height <= image height.
GetRectInsideImage ==
    fn = "get_rect" /\ fnPc = "done" =>
        /\ result[1] >= 0 /\ result[2] >= 0
        /\ result[3] >= 0 /\ result[4] >= 0
        /\ result[1] + result[3] <= args.img.cols
        /\ result[2] + result[4] <= args.img.rows

\* C27: nms never reads outside the tensor it is given: whatever the count
\* slot holds, every record it reads has an index below the capacity, that is,
\* lies within the output_size floats of its image.
NmsReadsWithinSlice ==
    fn = "batch_nms" /\ fnPc = "done" =>
        \A i \in 1..args.batch_size :
            \A k \in ReadIndices(args.output, (i - 1) * args.output_size) :
                /\ k < (args.output_size - 1) \div Stride
                /\ 1 + Stride * (k + 1) <= args.output_size

\* C30: yolo_save_result_image never reads a mask at an index at or beyond the
\* number of masks it rebuilt: for every result, also one where some or all
\* detections have null mask_data, drawing detection i uses a mask that exists
\* and belongs to detection i.
DrawUsesOwnMask ==
    fn = "yolo_save_result_image" /\ fnPc = "done" =>
        \A i \in 1..Len(result) :
            /\ result[i] \notin OutOfRange
            /\ result[i] = args.detections[i].mask_data

\* the stages of one call of the full-image entry point, in the required order
StageOrder(a) ==
    <<"preprocess", "enqueue", "copy_output", "copy_proto", "synchronize", "nms">>
        \o (IF a.n > 0 /\ ~a.skip_mask_copy THEN <<"mask">> ELSE <<>>)
        \o <<"fill">>

InPipeline == fn = "yolo_inference_from_memory_fast"

SessionsShareNothing ==
    fn = "sessions" =>
        /\ \A obj \in DOMAIN result.writers : Cardinality(result.writers[obj]) <= 1
        /\ \A s \in Sessions :
              result.state[s] = "live" =>
                  /\ result.own[s]
                  /\ result.preprocess = "allocated"
                  /\ result.ran[s] \in {"never", "ok"}

====
